---- MODULE Spec2Model ----
(***************************************************************************)
(* A model of the BirdNET MQTT Stream Deck plugin (src/unnamed/part_000):  *)
(* the payload normaliser, the rolling one-hour counter, the rarity        *)
(* classifier, the daily species aggregate, the image cache, the rotation  *)
(* scheduler and the MQTT message handler that wires them together.        *)
(*                                                                         *)
(* Conventions.                                                            *)
(*  - A JavaScript value is a tagged record [t |-> tag, v |-> payload].    *)
(*  - A JavaScript number is an integer count of hundredths: 0.05 is 5,    *)
(*    1 is One = 100, 4 seconds is 400.                                    *)
(*  - A string is a sequence of tokens; a token is one character or an     *)
(*    opaque run of non-space characters ("Jay", "u1").  " " is the space. *)
(*  - Time is in milliseconds since the model's epoch; the UTC date of an  *)
(*    instant is written <<"d", digit>> for day number digit.              *)
(*                                                                         *)
(* Abstractions.                                                           *)
(*  - A timer is armed or not: an armed timer may fire at any later step,  *)
(*    whatever its delay, which is kept in the timer for reading.          *)
(*  - The continuations of a settled promise run in the step that settles  *)
(*    it; a cached image is delivered in the step that asks for it.        *)
(*  - fetch and the mqtt module are available; the broker connection is    *)
(*    followed only through connect, subscribe, message and error.         *)
(*  - Every handler is one step: the event loop runs it to completion.     *)
(***************************************************************************)
EXTENDS Integers, Sequences, FiniteSets, TLC

VARIABLES
  now,                  \* Date.now()
  contexts,             \* Map context -> action
  settings,             \* the settings bag in force
  globalSettings,       \* the global settings bag
  mqtt,                 \* state of mqttClient: "none", "connecting", "connected", "subscribed"
  detectionTimestamps,  \* the rolling window
  imageCache,           \* Map url -> data URI
  imageInFlight,        \* Map url -> pending fetch
  fetches,              \* the network requests issued so far, by id (the promise of each)
  waiters,              \* then-callbacks attached to pending fetches
  dailyBirds,           \* Map dateKey -> day map (records in insertion order)
  rotationState,        \* Map context -> { index, timer, _lastRareHold }
  timeouts,             \* the pending rotation timeouts of each context, with multiplicity
  latestDetection,
  latestImageUrl,
  cacheSaveTimer,       \* the save timeouts pending: 1 while cacheSaveTimer holds a handle
  cacheFile,            \* what saveCache last wrote
  tiles,                \* what each key of the device shows: [image, title]
  recorded,             \* history: every timestamp recordDetection has pushed
  seenOcc,              \* history: numeric occurrences upserted per species under the held date key
  tickLog,              \* history: per context, the species shown by its latest consecutive ticks
  delivered,            \* history: outcome handed to each caller at the latest fetch settlement
  arg,                  \* input of the pure-function specifications
  ret                   \* their result

vars == <<now, contexts, settings, globalSettings, mqtt, detectionTimestamps, imageCache,
          imageInFlight, fetches, waiters, dailyBirds, rotationState, timeouts,
          latestDetection, latestImageUrl, cacheSaveTimer, cacheFile, tiles, recorded, seenOcc, tickLog,
          delivered, arg, ret>>

----------------------------------------------------------------------------
(* JavaScript values *)

Undef == [t |-> "undef"]
Null == [t |-> "null"]
NaN == [t |-> "nan"]
Bool(b) == [t |-> "bool", v |-> b]
Str(s) == [t |-> "str", v |-> s]
Num(n) == [t |-> "num", v |-> n]
Obj(f) == [t |-> "obj", v |-> f]
Arr(a) == [t |-> "arr", v |-> a]
SyntaxError == [t |-> "error"]

One == 100

typeof(x) ==
  CASE x.t = "undef" -> "undefined"
    [] x.t \in {"null", "obj", "arr"} -> "object"
    [] x.t = "str" -> "string"
    [] x.t \in {"num", "nan"} -> "number"
    [] x.t = "bool" -> "boolean"

IsNumber(x) == x.t = "num"      \* typeof x === "number" && !Number.isNaN(x)

Truthy(x) ==
  CASE x.t \in {"undef", "null", "nan"} -> FALSE
    [] x.t = "str" -> x.v # <<>>
    [] x.t = "num" -> x.v # 0
    [] x.t = "bool" -> x.v
    [] OTHER -> TRUE

And(a, b) == IF Truthy(a) THEN b ELSE a          \* a && b
Or(a, b) == IF Truthy(a) THEN a ELSE b           \* a || b
Nullish(a, b) == IF a.t \in {"undef", "null"} THEN b ELSE a   \* a ?? b

\* x[f]: a property read.  Primitives carry none of the names the plugin reads.
Get(x, f) ==
  CASE x.t = "obj" -> IF f \in DOMAIN x.v THEN x.v[f] ELSE Undef
    [] x.t = "arr" -> IF f = "0" /\ Len(x.v) > 0 THEN x.v[1] ELSE Undef
    [] OTHER -> Undef

Max(a, b) == IF a >= b THEN a ELSE b
Min(a, b) == IF a <= b THEN a ELSE b

----------------------------------------------------------------------------
(* Strings *)

RECURSIVE trimStart(_)
trimStart(s) == IF s # <<>> /\ Head(s) = " " THEN trimStart(Tail(s)) ELSE s

RECURSIVE trimEnd(_)
trimEnd(s) == IF s # <<>> /\ s[Len(s)] = " " THEN trimEnd(SubSeq(s, 1, Len(s) - 1)) ELSE s

trim(s) == trimEnd(trimStart(s))

DigitChar == <<"0", "1", "2", "3", "4", "5", "6", "7", "8", "9">>
IsDigit(c) == \E i \in 1..10 : DigitChar[i] = c
DigitVal(c) == (CHOOSE i \in 1..10 : DigitChar[i] = c) - 1

\* Number(s) for a string: "" is 0, "d", "d.d" and "d.dd" are numbers, anything else NaN.
ToNumber(s) ==
  LET u == trim(s) IN
  IF u = <<>> THEN Num(0)
  ELSE IF Len(u) = 1 /\ IsDigit(u[1]) THEN Num(One * DigitVal(u[1]))
  ELSE IF Len(u) = 3 /\ IsDigit(u[1]) /\ u[2] = "." /\ IsDigit(u[3])
    THEN Num(One * DigitVal(u[1]) + 10 * DigitVal(u[3]))
  ELSE IF Len(u) = 4 /\ IsDigit(u[1]) /\ u[2] = "." /\ IsDigit(u[3]) /\ IsDigit(u[4])
    THEN Num(One * DigitVal(u[1]) + 10 * DigitVal(u[3]) + DigitVal(u[4]))
  ELSE NaN

\* Number(x)
Number(x) ==
  CASE x.t \in {"num", "nan"} -> x
    [] x.t = "str" -> ToNumber(x.v)
    [] x.t = "null" -> Num(0)
    [] x.t = "bool" -> IF x.v THEN Num(One) ELSE Num(0)
    [] OTHER -> NaN

\* String(n) for a number of hundredths.
NumText(n) ==
  LET a == IF n < 0 THEN 0 - n ELSE n
      whole == <<DigitChar[((a \div One) % 10) + 1]>>
      tenths == DigitChar[((a \div 10) % 10) + 1]
      hundredths == DigitChar[(a % 10) + 1]
      frac == IF a % One = 0 THEN <<>>
              ELSE IF a % 10 = 0 THEN <<".", tenths>>
              ELSE <<".", tenths, hundredths>>
  IN (IF n < 0 THEN <<"-">> ELSE <<>>) \o whole \o frac

RECURSIVE JoinStrings(_)
\* String(x), and Array.prototype.join(",") over it for an array.
String(x) ==
  CASE x.t = "str" -> x.v
    [] x.t = "num" -> NumText(x.v)
    [] x.t = "nan" -> <<"NaN">>
    [] x.t = "bool" -> IF x.v THEN <<"true">> ELSE <<"false">>
    [] x.t = "undef" -> <<"undefined">>
    [] x.t = "null" -> <<"null">>
    [] x.t = "obj" -> <<"[object", " ", "Object]">>
    [] x.t = "arr" -> JoinStrings(x.v)
JoinStrings(a) ==
  IF a = <<>> THEN <<>>
  ELSE LET h == IF Head(a).t \in {"undef", "null"} THEN <<>> ELSE String(Head(a))
       IN IF Len(a) = 1 THEN h ELSE h \o <<",">> \o JoinStrings(Tail(a))

----------------------------------------------------------------------------
(* Payload normaliser *)

\* A message body: its text, and what JSON.parse makes of the text (SyntaxError when it throws).
JSONparse(body) == body.doc

RECURSIVE splitDots(_, _)
\* path.split("."): cur is the part being read.
splitDots(s, cur) ==
  IF s = <<>> THEN <<cur>>
  ELSE IF Head(s) = "." THEN <<cur>> \o splitDots(Tail(s), <<>>)
  ELSE splitDots(Tail(s), Append(cur, Head(s)))

\* path.split(".").map((part) => part.trim()).filter(Boolean)
pathParts(path) ==
  LET raw == splitDots(path, <<>>)
      trimmed == [i \in 1..Len(raw) |-> trim(raw[i])]
  IN SelectSeq(trimmed, LAMBDA p : p # <<>>)

RECURSIVE walkPath(_, _)
\* A path part is one field-name token; a part of several tokens names no field.
walkPath(current, parts) ==
  IF parts = <<>> THEN current
  ELSE IF ~Truthy(current) \/ typeof(current) # "object" THEN Undef
  ELSE walkPath(Get(current, IF Len(parts[1]) = 1 THEN parts[1][1] ELSE ""), Tail(parts))

getJsonPath(obj, path) == walkPath(obj, pathParts(path))

numericField(value) ==
  IF typeof(value) = "number" THEN value
  ELSE IF typeof(value) = "string"
    THEN (LET parsed == ToNumber(value.v) IN IF parsed.t = "nan" THEN Null ELSE parsed)
  ELSE Null

extractConfidence(json) ==
  IF ~Truthy(json) \/ typeof(json) # "object" THEN Null
  ELSE LET attributes == Get(json, "attributes")
           event == Get(json, "event")
           value ==
             Nullish(Nullish(Nullish(Get(json, "Confidence"), Get(json, "confidence")),
                             And(attributes, Or(Get(attributes, "confidence"), Get(attributes, "Confidence")))),
                     And(event, Or(Get(event, "confidence"), Get(event, "Confidence"))))
       IN numericField(value)

extractImageUrl(json) ==
  IF ~Truthy(json) \/ typeof(json) # "object" THEN Null
  ELSE LET BirdImage == Get(json, "BirdImage")
           birdImage == Get(json, "birdImage")
           url ==
             Or(Or(Or(Or(And(BirdImage, Or(Or(Get(BirdImage, "URL"), Get(BirdImage, "Url")), Get(BirdImage, "url"))),
                         And(birdImage, Or(Get(birdImage, "URL"), Get(birdImage, "url")))),
                      Get(json, "imageUrl")),
                   Get(json, "image_url")),
                Get(json, "image"))
       IN IF typeof(url) = "string" /\ Len(trim(url.v)) > 0 THEN Str(trim(url.v)) ELSE Null

extractOccurrence(json) ==
  IF ~Truthy(json) \/ typeof(json) # "object" THEN Null
  ELSE numericField(Nullish(Get(json, "occurrence"), Get(json, "Occurrence")))

extractDate(json) ==
  IF ~Truthy(json) \/ typeof(json) # "object" THEN Null
  ELSE LET value == Or(Get(json, "Date"), Get(json, "date"))
       IN IF typeof(value) = "string" /\ Len(trim(value.v)) > 0 THEN Str(trim(value.v)) ELSE Null

\* The alias list of parsePayload, in order.
nameCandidates(json) ==
  LET attributes == Get(json, "attributes")
      event == Get(json, "event")
      results == Get(json, "results")
      first == Get(results, "0")
  IN << Get(json, "CommonName"), Get(json, "ScientificName"), Get(json, "SpeciesCode"),
        Get(json, "common_name"), Get(json, "commonName"), Get(json, "species"),
        Get(json, "scientific_name"), Get(json, "scientificName"), Get(json, "label"),
        Get(json, "name"), Get(json, "bird_name"), Get(json, "detection"),
        And(attributes, Or(Get(attributes, "common_name"), Get(attributes, "species"))),
        And(event, Or(Get(event, "common_name"), Get(event, "species"))),
        And(And(Bool(results.t = "arr"), first), Or(Get(first, "common_name"), Get(first, "species"))) >>

\* candidates.find((value) => typeof value === "string" && value.trim().length > 0)
findName(candidates) ==
  LET hits == SelectSeq(candidates, LAMBDA c : typeof(c) = "string" /\ Len(trim(c.v)) > 0)
  IN IF hits = <<>> THEN Undef ELSE hits[1]

Detection(name, confidence, imageUrl, occurrence, detectionDate) ==
  [name |-> name, confidence |-> confidence, imageUrl |-> imageUrl,
   occurrence |-> occurrence, detectionDate |-> detectionDate]

\* The configured-path step took the value: it resolved to something truthy.
pathValueUsed(value) == Truthy(value)

\* parsePayload(payload) under settings.payloadKey; Null is "return null".
\* A truthy payloadKey that is no string makes path.split throw inside the first try block.
parsePayload(body, payloadKey) ==
  LET text == trim(body.text)
      json == JSONparse(body)
      parsed == json.t # "error"
      usePath == Truthy(payloadKey) /\ payloadKey.t = "str" /\ parsed
      value == IF usePath THEN getJsonPath(json, payloadKey.v) ELSE Undef
      \* reading a property of null throws inside the second try block
      found == IF parsed /\ json.t # "null" THEN findName(nameCandidates(json)) ELSE Undef
  IN IF text = <<>> THEN Null
     ELSE IF usePath /\ pathValueUsed(value)
       THEN Detection(String(value), extractConfidence(json), extractImageUrl(json),
                      extractOccurrence(json), extractDate(json))
     ELSE IF Truthy(found)
       THEN Detection(found.v, extractConfidence(json), extractImageUrl(json),
                      extractOccurrence(json), extractDate(json))
     ELSE Detection(text, Null, Null, Null, Null)

----------------------------------------------------------------------------
(* Rolling counter *)

HourMs == 3600000

RECURSIVE pruneDetectionsEager(_, _)
\* pruneDetections dropping the entry that is exactly one hour old too.
pruneDetectionsEager(ts, t) ==
  IF ts # <<>> /\ Head(ts) <= t - HourMs THEN pruneDetectionsEager(Tail(ts), t) ELSE ts

RECURSIVE pruneDetections(_, _)
\* while (detectionTimestamps.length > 0 && detectionTimestamps[0] < cutoff) shift()
pruneDetections(ts, t) ==
  IF ts # <<>> /\ Head(ts) < t - HourMs THEN pruneDetections(Tail(ts), t) ELSE ts

recordDetection(ts, t) == pruneDetections(Append(ts, t), t)

\* getDetectionsLastHour() leaves the window pruned and returns its length.
getDetectionsLastHour(ts, t) == Len(pruneDetections(ts, t))

----------------------------------------------------------------------------
(* Rarity classifier *)

DEFAULTS ==
  [payloadKey |-> Str(<<"CommonName">>),
   rotationSeconds |-> Num(4 * One),
   epicOccurrenceThreshold |-> Num(10),
   rareOccurrenceThreshold |-> Num(40),
   uncommonOccurrenceThreshold |-> Num(70),
   rareHoldMultiplier |-> Num(2 * One)]

\* Number.isFinite(Number(x)) ? Number(x) : fallback
finiteOr(x, fallback) == IF Number(x).t = "num" THEN Number(x).v ELSE fallback.v

epicCutoff(cfg) ==
  Max(0, Min(One, finiteOr(cfg.epicOccurrenceThreshold, DEFAULTS.epicOccurrenceThreshold)))

\* rareCutoff clamped but not raised to epicCutoff.
rareCutoffUnordered(cfg) ==
  Max(0, Min(One, finiteOr(cfg.rareOccurrenceThreshold, DEFAULTS.rareOccurrenceThreshold)))

rareCutoff(cfg) ==
  Max(epicCutoff(cfg), Min(One, finiteOr(cfg.rareOccurrenceThreshold, DEFAULTS.rareOccurrenceThreshold)))

uncommonCutoff(cfg) ==
  Max(rareCutoff(cfg), Min(One, finiteOr(cfg.uncommonOccurrenceThreshold, DEFAULTS.uncommonOccurrenceThreshold)))

\* getCommonality comparing with < instead of <=.
getCommonalityStrict(occurrence, cfg) ==
  IF ~IsNumber(occurrence) THEN "Unknown"
  ELSE IF occurrence.v < epicCutoff(cfg) THEN "Epic"
  ELSE IF occurrence.v < rareCutoff(cfg) THEN "Rare"
  ELSE IF occurrence.v < uncommonCutoff(cfg) THEN "Uncommon"
  ELSE "Common"

\* The label of getCommonality(occurrence); colour and shape are fixed per label.
getCommonality(occurrence, cfg) ==
  IF ~IsNumber(occurrence) THEN "Unknown"
  ELSE IF occurrence.v <= epicCutoff(cfg) THEN "Epic"
  ELSE IF occurrence.v <= rareCutoff(cfg) THEN "Rare"
  ELSE IF occurrence.v <= uncommonCutoff(cfg) THEN "Uncommon"
  ELSE "Common"

----------------------------------------------------------------------------
(* Daily aggregator *)

DayMs == 86400000

\* new Date(t).toISOString().slice(0, 10)
IsoDate(t) == <<"d", DigitChar[(t \div DayMs) + 1]>>

\* The day map is the sequence of its records in insertion order.
indexOfName(dayMap, name) ==
  IF \E i \in 1..Len(dayMap) : dayMap[i].name = name
  THEN CHOOSE i \in 1..Len(dayMap) : dayMap[i].name = name
  ELSE 0

\* dayMap.set(key, record): a present key keeps its place.
dayMapSet(dayMap, record) ==
  LET i == indexOfName(dayMap, record.name)
  IN IF i = 0 THEN Append(dayMap, record) ELSE [dayMap EXCEPT ![i] = record]

\* pruneOldDays deleting nothing.
pruneOldDaysNever(db, todayKey) == db

pruneOldDays(db, todayKey) == [k \in DOMAIN db \cap {todayKey} |-> db[k]]

\* mergeOccurrence keeping the newest reading.
mergeOccurrenceNewest(occurrence, existingOccurrence) == occurrence

\* typeof occurrence === "number" ? Math.min(occurrence, existing.occurrence ?? occurrence) : occurrence
mergeOccurrence(occurrence, existingOccurrence) ==
  IF typeof(occurrence) = "number"
  THEN Num(Min(occurrence.v, Nullish(existingOccurrence, occurrence).v))
  ELSE occurrence

\* The record taking the confidence of the detection whatever it is.
mergeConfidenceNewest(confidence, existingConfidence) == confidence

\* typeof detection.confidence === "number" ? detection.confidence : existing.confidence
mergeConfidence(confidence, existingConfidence) ==
  IF typeof(confidence) = "number" THEN confidence ELSE existingConfidence

dateKeyOf(detection, t) ==
  IF Truthy(detection.detectionDate) THEN detection.detectionDate.v ELSE IsoDate(t)

updateDailyBirds(db, detection, t) ==
  LET dateKey == dateKeyOf(detection, t)
      db1 == IF dateKey \in DOMAIN db THEN db ELSE db @@ (dateKey :> <<>>)
      dayMap == db1[dateKey]
      i == indexOfName(dayMap, detection.name)
      existingOccurrence == IF i = 0 THEN Undef ELSE dayMap[i].occurrence
      existingConfidence == IF i = 0 THEN Undef ELSE dayMap[i].confidence
      occurrence == IF typeof(detection.occurrence) = "number" THEN detection.occurrence
                    ELSE existingOccurrence
      confidence == mergeConfidence(detection.confidence, existingConfidence)
      record == [name |-> detection.name,
                 occurrence |-> mergeOccurrence(occurrence, existingOccurrence),
                 confidence |-> confidence,
                 lastSeen |-> t]
  IN IF detection.name = <<>> THEN db1
     ELSE pruneOldDays([db1 EXCEPT ![dateKey] = dayMapSet(dayMap, record)], dateKey)

\* The comparator ordering a record without occurrence first.
sortKeyZero(record) == IF typeof(record.occurrence) = "number" THEN record.occurrence.v ELSE 0

sortKey(record) == IF typeof(record.occurrence) = "number" THEN record.occurrence.v ELSE One

RECURSIVE insertSorted(_, _)
\* Place record after every element that does not sort after it (the sort is stable).
insertSorted(sorted, record) ==
  IF sorted = <<>> THEN <<record>>
  ELSE IF sortKey(Head(sorted)) <= sortKey(record)
    THEN <<Head(sorted)>> \o insertSorted(Tail(sorted), record)
  ELSE <<record>> \o sorted

RECURSIVE sortBirds(_)
sortBirds(records) ==
  IF records = <<>> THEN <<>>
  ELSE insertSorted(sortBirds(SubSeq(records, 1, Len(records) - 1)), records[Len(records)])

getTodayBirds(db, t) ==
  IF IsoDate(t) \in DOMAIN db THEN sortBirds(db[IsoDate(t)]) ELSE <<>>

----------------------------------------------------------------------------
(* Display model and tiles *)

\* a <= b for a number a and any value b
LessEq(a, b) == Number(b).t = "num" /\ a.v <= Number(b).v

formatTitle(name, confidence, count, occurrence, cfg) ==
  [name |-> trim(name),
   confidence |-> IF IsNumber(confidence) THEN confidence ELSE Null,
   count |-> count,
   occurrence |-> IF IsNumber(occurrence) THEN occurrence ELSE Null,
   rare |-> IsNumber(occurrence) /\ LessEq(occurrence, cfg.rareOccurrenceThreshold)]

NoTile == [image |-> Null, title |-> <<>>]

setTitle(tile, title) == [tile EXCEPT !.title = title]

\* A surrogate code unit without its pair, as JSON.parse returns it for the escape \ud800.
LoneSurrogate == "\\ud800"

\* encodeURIComponent(text) throws URIError: the text holds a lone surrogate.
URIError(text) == \E i \in 1..Len(text) : text[i] = LoneSurrogate

\* setImageTitle(context, display, variant): encodeURIComponent(svg) throws before anything is
\* sent when the name cannot be encoded, and the key keeps what it showed.
setImageTitle(tile, display, variant) ==
  IF URIError(display.name) THEN tile
  ELSE [image |-> [kind |-> "svg", variant |-> variant, display |-> display], title |-> <<>>]

\* setImage(context, composed) followed by setTitle(context, "")
setImage(tile, image) == [image |-> image, title |-> <<>>]

\* renderImageWithDot: the marker it computes from occurrence is not part of what it returns.
renderImageWithDot(imageDataUri, occurrence) ==
  IF imageDataUri = Null THEN Null ELSE [kind |-> "photo", data |-> imageDataUri]

Waiting == <<"Waiting">>
MqttErr == <<"MQTT", " ", "ERR">>

----------------------------------------------------------------------------
(* Rotation scheduler *)

\* Number(x) || fallback
numberOr(x, fallback) == IF Truthy(Number(x)) THEN Number(x).v ELSE fallback.v

\* The state object startRotation creates: { index: 0, timer: null }.
NewRotation == [index |-> 0, timer |-> Null, lastRareHold |-> Undef]

Timer(delayMs) == [delay |-> delayMs]

\* rotateOnce restarting at 0 one bird early.
wrapIndexEarly(index, n) == IF index >= n - 1 THEN 0 ELSE index

\* rotateOnce taking the stored index modulo the length of the list.
wrapIndexModulo(index, n) == index % n

\* The index rotateOnce reads the bird at (0-based): a stored index past the end restarts at 0.
wrapIndex(index, n) == IF index >= n THEN 0 ELSE index

rareHold(bird, cfg) ==
  typeof(bird.occurrence) = "number"
    /\ bird.occurrence.v <= numberOr(cfg.rareOccurrenceThreshold, DEFAULTS.rareOccurrenceThreshold)

\* Math.max(1, seconds * 1000 * (state._lastRareHold ? holdMultiplier : 1))
delayMs(hold, cfg) ==
  LET seconds == numberOr(cfg.rotationSeconds, DEFAULTS.rotationSeconds)
      holdMultiplier == numberOr(cfg.rareHoldMultiplier, DEFAULTS.rareHoldMultiplier)
  IN Max(1, IF hold THEN (seconds * 10 * holdMultiplier) \div One ELSE seconds * 10)

\* rotateOnce(context) leaves through the exception of setImageTitle: the name of the bird it
\* reads cannot be encoded.
rotateOnceThrows(state, birds) ==
  birds # <<>> /\ URIError(trim(birds[wrapIndex(state.index, Len(birds)) + 1].name))

\* rotateOnce(context) on the context's state object: the state it leaves. When setImageTitle
\* throws, the index has advanced and neither _lastRareHold nor the timer has been assigned.
rotateOnceState(state, birds, cfg) ==
  IF birds = <<>>
  THEN [index |-> state.index, timer |-> Timer(delayMs(FALSE, cfg)), lastRareHold |-> Bool(FALSE)]
  ELSE LET i == wrapIndex(state.index, Len(birds))
           hold == rareHold(birds[i + 1], cfg)
       IN IF rotateOnceThrows(state, birds) THEN [state EXCEPT !.index = i + 1]
          ELSE [index |-> i + 1, timer |-> Timer(delayMs(hold, cfg)), lastRareHold |-> Bool(hold)]

\* rotateOnce(context): what the context's key shows afterwards.
rotateOnceTile(tile, state, birds, count, cfg) ==
  IF birds = <<>> THEN setTitle(tile, Waiting)
  ELSE LET bird == birds[wrapIndex(state.index, Len(birds)) + 1]
       IN setImageTitle(tile, formatTitle(bird.name, bird.confidence, count, bird.occurrence, cfg), "today")

birdNames(birds) == [i \in 1..Len(birds) |-> birds[i].name]

NoLog == [list |-> <<>>, shown |-> <<>>, found |-> 0]

\* History of rotateOnce: the species shown by the consecutive ticks made over one unchanged list,
\* the latest Len(list) + 1 of them, and the stored index the latest tick found.
rotateOnceLog(log, state, birds) ==
  IF birds = <<>> THEN NoLog
  ELSE IF rotateOnceThrows(state, birds) THEN log
  ELSE LET name == birds[wrapIndex(state.index, Len(birds)) + 1].name
           shown == IF log.list = birdNames(birds) THEN Append(log.shown, name) ELSE <<name>>
       IN [list |-> birdNames(birds),
           shown |-> IF Len(shown) > Len(birds) + 1 THEN Tail(shown) ELSE shown,
           found |-> state.index]

\* The part of startRotation before the tick: create the state, clear its timer.
startState(rot, context) ==
  IF context \in DOMAIN rot THEN [rot[context] EXCEPT !.timer = Null] ELSE NewRotation

InitialDelayMs == 50

\* startRotation(context, immediate) on rotationState.
startRotation(rot, context, immediate, birds, cfg) ==
  LET state == startState(rot, context)
      after == IF immediate THEN rotateOnceState(state, birds, cfg)
               ELSE [state EXCEPT !.timer = Timer(InitialDelayMs)]
  IN [c \in DOMAIN rot \cup {context} |-> IF c = context THEN after ELSE rot[c]]

\* setTimeout: one more pending timeout like timer.
arm(pending, timer) ==
  IF timer \in DOMAIN pending THEN [pending EXCEPT ![timer] = @ + 1]
  ELSE [x \in DOMAIN pending \cup {timer} |-> IF x = timer THEN 1 ELSE pending[x]]

\* clearTimeout without effect.
cancelNever(pending, timer) == pending

\* if (timer) clearTimeout(timer): a timeout that already fired is not pending any more.
cancel(pending, timer) ==
  IF timer \notin DOMAIN pending THEN pending
  ELSE IF pending[timer] = 1 THEN [x \in DOMAIN pending \ {timer} |-> pending[x]]
  ELSE [pending EXCEPT ![timer] = @ - 1]

timerOf(rot, context) == IF context \in DOMAIN rot THEN rot[context].timer ELSE Null

\* startRotation arming its timeout without clearing the one already armed.
startTimeoutsLeaks(pending, rot, context, immediate, birds, cfg) ==
  arm(pending, startRotation(rot, context, immediate, birds, cfg)[context].timer)

\* startRotation(context, immediate) on the pending timeouts of the context.
startTimeouts(pending, rot, context, immediate, birds, cfg) ==
  LET cleared == cancel(pending, timerOf(rot, context))
  IN IF immediate /\ rotateOnceThrows(startState(rot, context), birds) THEN cleared
     ELSE arm(cleared, startRotation(rot, context, immediate, birds, cfg)[context].timer)

\* stopRotation deleting the state without clearing its timeout.
stopTimeoutsLeaks(pending, rot, context) == pending

\* stopRotation(context) on the pending timeouts of the context.
stopTimeouts(pending, rot, context) == cancel(pending, timerOf(rot, context))

\* stopRotation dropping the state of every context.
stopRotationAll(rot, context) == [c \in {} |-> rot[c]]

stopRotation(rot, context) == [c \in DOMAIN rot \ {context} |-> rot[c]]

----------------------------------------------------------------------------
(* State *)

ACTION_TEXT == "lastdetection"
ACTION_IMAGE == "image"
ACTION_BORDER == "border"
ACTION_TODAY == "today"
Actions == {ACTION_TEXT, ACTION_IMAGE, ACTION_BORDER, ACTION_TODAY}

NoContext == ""

\* The keys of the device: each context is an instance of one action for its whole life.
ActionOf ==
  [today1 |-> ACTION_TODAY, today2 |-> ACTION_TODAY, text1 |-> ACTION_TEXT,
   meter1 |-> ACTION_BORDER, image1 |-> ACTION_IMAGE, image2 |-> ACTION_IMAGE]
ContextIds == DOMAIN ActionOf
EmptyMap == [k \in {} |-> Null]

\* { ...a, ...b }
merge(a, b) == [k \in DOMAIN a \cup DOMAIN b |-> IF k \in DOMAIN b THEN b[k] ELSE a[k]]

contextsOf(ctxs, action) == {c \in DOMAIN ctxs : ctxs[c] = action}

\* The clock starts one hour before the UTC midnight that ends day 1.
StartNow == 2 * DayMs - HourMs

RECURSIVE loadBirds(_, _, _)
\* data.birds.forEach(...): the day map loadCache builds, dayMap so far.
loadBirds(birds, dayMap, t) ==
  IF birds = <<>> THEN dayMap
  ELSE LET record == Head(birds)
       IN IF ~Truthy(record) \/ ~Truthy(Get(record, "name"))
          THEN loadBirds(Tail(birds), dayMap, t)
          ELSE loadBirds(
                 Tail(birds),
                 dayMapSet(
                   dayMap,
                   [name |-> Get(record, "name").v,
                    occurrence |-> IF typeof(Get(record, "occurrence")) = "number"
                                   THEN Get(record, "occurrence") ELSE Null,
                    confidence |-> IF typeof(Get(record, "confidence")) = "number"
                                   THEN Get(record, "confidence") ELSE Null,
                    lastSeen |-> IF typeof(Get(record, "lastSeen")) = "number"
                                 THEN Get(record, "lastSeen").v ELSE t]),
                 t)

\* dailyBirds after loadCache(); file is Null when the cache file is missing, empty or unreadable.
loadCacheBirds(file, t) ==
  IF file # Null /\ file.dateKey = IsoDate(t) /\ loadBirds(file.birds, <<>>, t) # <<>>
  THEN (IsoDate(t) :> loadBirds(file.birds, <<>>, t))
  ELSE EmptyMap

loadCacheLatestDetection(file) ==
  IF file # Null /\ file.latestDetection # Null /\ file.latestDetection.name # <<>>
  THEN file.latestDetection ELSE Null

loadCacheLatestImageUrl(file) ==
  IF file # Null /\ typeof(file.latestImageUrl) = "string" THEN file.latestImageUrl ELSE Null

\* History: the numeric occurrences on record for each species of the held day.
occOfDay(db) ==
  IF DOMAIN db = {} THEN EmptyMap
  ELSE LET dayMap == db[CHOOSE k \in DOMAIN db : TRUE]
       IN [n \in {dayMap[i].name : i \in 1..Len(dayMap)} |->
             LET r == dayMap[indexOfName(dayMap, n)]
             IN IF IsNumber(r.occurrence) THEN {r.occurrence.v} ELSE {}]

\* The state once the module has loaded: loadCache() has run on the cache file.
Boot(file, t, cfg) ==
  /\ now = t
  /\ contexts = EmptyMap
  /\ settings = cfg
  /\ globalSettings = DEFAULTS
  /\ mqtt = "none"
  /\ detectionTimestamps = <<>>
  /\ imageCache = EmptyMap
  /\ imageInFlight = EmptyMap
  /\ fetches = <<>>
  /\ waiters = <<>>
  /\ dailyBirds = loadCacheBirds(file, t)
  /\ rotationState = EmptyMap
  /\ timeouts = [c \in ContextIds |-> EmptyMap]
  /\ latestDetection = loadCacheLatestDetection(file)
  /\ latestImageUrl = loadCacheLatestImageUrl(file)
  /\ cacheSaveTimer = 0
  /\ cacheFile = file
  /\ tiles = [c \in ContextIds |-> NoTile]
  /\ tickLog = EmptyMap
  /\ recorded = <<>>
  /\ seenOcc = occOfDay(loadCacheBirds(file, t))
  /\ delivered = <<>>

----------------------------------------------------------------------------
(* Image cache *)

MaxFetches == 2
MaxWaiters == 2

Failure == [url |-> <<>>, from |-> 0]
\* The data URI built from the response to network request id.
DataUri(url, id) == [url |-> url, from |-> id]

\* fetchImageData never finding a fetch in flight.
fetchJoinsNever(url, inFlight) == FALSE

\* imageInFlight.has(url): the call joins the pending fetch instead of issuing a request.
fetchJoins(url, inFlight) == url \in DOMAIN inFlight

\* The then-callback dropping an image that is not the one of the latest detection.
imageCallbackGuarded(tl, ctxs, dataUri, specificContext, occurrence) ==
  [c \in DOMAIN tl |->
     IF /\ latestImageUrl = Str(dataUri.url)
        /\ IF specificContext # NoContext THEN c = specificContext
           ELSE c \in contextsOf(ctxs, ACTION_IMAGE)
     THEN setImage(tl[c], renderImageWithDot(dataUri, occurrence))
     ELSE tl[c]]

\* The then-callback of updateImageContexts, run with the contexts registered at that moment.
imageCallback(tl, ctxs, dataUri, specificContext, occurrence) ==
  LET composed == renderImageWithDot(dataUri, occurrence)
      hit(c) == IF specificContext # NoContext THEN c = specificContext
                ELSE c \in contextsOf(ctxs, ACTION_IMAGE)
  IN [c \in DOMAIN tl |-> IF hit(c) THEN setImage(tl[c], composed) ELSE tl[c]]

RECURSIVE runCallbacks(_, _, _, _)
runCallbacks(tl, ctxs, dataUri, callers) ==
  IF callers = <<>> THEN tl
  ELSE runCallbacks(imageCallback(tl, ctxs, dataUri, Head(callers).specific, Head(callers).occurrence),
                    ctxs, dataUri, Tail(callers))

Waiter(id, specificContext, occurrence) ==
  [fetch |-> id, specific |-> specificContext, occurrence |-> occurrence]

\* updateImageContexts(imageUrl, specificContext, occurrence) at the end of a handler that leaves
\* the contexts ctxs and the tiles tl.  A cached image is delivered before the turn ends.
updateImageContexts(imageUrl, specificContext, occurrence, ctxs, tl) ==
  IF ~Truthy(imageUrl) \/ (specificContext = NoContext /\ contextsOf(ctxs, ACTION_IMAGE) = {})
  THEN /\ tiles' = tl
       /\ UNCHANGED <<imageCache, imageInFlight, fetches, waiters>>
  ELSE IF imageUrl.v \in DOMAIN imageCache
  THEN /\ tiles' = imageCallback(tl, ctxs, imageCache[imageUrl.v], specificContext, occurrence)
       /\ UNCHANGED <<imageCache, imageInFlight, fetches, waiters>>
  ELSE IF fetchJoins(imageUrl.v, imageInFlight)
  THEN /\ Len(waiters) < MaxWaiters
       /\ waiters' = Append(waiters, Waiter(imageInFlight[imageUrl.v], specificContext, occurrence))
       /\ tiles' = tl
       /\ UNCHANGED <<imageCache, imageInFlight, fetches>>
  ELSE /\ Len(fetches) < MaxFetches
       /\ Len(waiters) < MaxWaiters
       /\ fetches' = Append(fetches, [url |-> imageUrl.v, state |-> "pending"])
       /\ imageInFlight' = merge(imageInFlight, imageUrl.v :> (Len(fetches) + 1))
       /\ waiters' = Append(waiters, Waiter(Len(fetches) + 1, specificContext, occurrence))
       /\ tiles' = tl
       /\ UNCHANGED imageCache

\* A settlement that caches the failure too.
settledCachePoisoned(cache, url, dataUri, ok) ==
  merge(cache, url :> IF ok THEN dataUri ELSE Failure)

\* imageCache after the fetch of url settles: imageCache.set(url, dataUri) runs only when the
\* response was ok; a failure skips it.
settledCache(cache, url, dataUri, ok) ==
  IF ok THEN merge(cache, url :> dataUri) ELSE cache

\* The network request id settles: the response arrives (ok) or the fetch fails.
FetchSettles(id, ok) ==
  /\ id \in DOMAIN fetches
  /\ fetches[id].state = "pending"
  /\ LET url == fetches[id].url
         callers == SelectSeq(waiters, LAMBDA w : w.fetch = id)
         dataUri == DataUri(url, id)
     IN /\ fetches' = [fetches EXCEPT ![id].state = IF ok THEN "ok" ELSE "failed"]
        /\ imageCache' = settledCache(imageCache, url, dataUri, ok)
        /\ imageInFlight' = [u \in DOMAIN imageInFlight \ {url} |-> imageInFlight[u]]
        /\ waiters' = SelectSeq(waiters, LAMBDA w : w.fetch # id)
        /\ tiles' = IF ok THEN runCallbacks(tiles, contexts, dataUri, callers) ELSE tiles
        /\ delivered' = [i \in 1..Len(callers) |->
                           [caller |-> callers[i], outcome |-> IF ok THEN dataUri ELSE Failure]]
  /\ UNCHANGED <<now, contexts, settings, globalSettings, mqtt, detectionTimestamps, dailyBirds,
                 rotationState, timeouts, latestDetection, latestImageUrl, cacheSaveTimer, cacheFile,
                 recorded, seenOcc, tickLog, arg, ret>>

----------------------------------------------------------------------------
(* Stream Deck events: websocket.onmessage *)

\* if (message.context && message.action) contexts.set(message.context, message.action)
registerContext(ctxs, context) ==
  IF context # NoContext THEN merge(ctxs, context :> ActionOf[context]) ELSE ctxs

\* rotationState and its history after startRotation(context) without a tick.
logsFor(rot, log) == [c \in DOMAIN rot |-> IF c \in DOMAIN log THEN log[c] ELSE NoLog]

\* willAppear for context, carrying the action's settings.
WillAppear(context, payloadSettings) ==
  LET ctxs == registerContext(contexts, context)
      cfg == merge(merge(DEFAULTS, globalSettings), payloadSettings)
      action == ActionOf[context]
      showLatest == action \in {ACTION_TEXT, ACTION_BORDER} /\ latestDetection # Null
      display == formatTitle(latestDetection.name, latestDetection.confidence,
                             getDetectionsLastHour(detectionTimestamps, now),
                             latestDetection.occurrence, cfg)
      tl == IF showLatest
            THEN [tiles EXCEPT ![context] =
                    setImageTitle(@, display, IF action = ACTION_BORDER THEN "border" ELSE "text")]
            ELSE tiles
  IN /\ contexts' = ctxs
     /\ settings' = cfg
     /\ mqtt' = "connecting"
     /\ rotationState' = IF action = ACTION_TODAY
                         THEN startRotation(rotationState, context, FALSE, <<>>, cfg)
                         ELSE rotationState
     /\ timeouts' = IF action = ACTION_TODAY
                    THEN [timeouts EXCEPT ![context] =
                            startTimeouts(@, rotationState, context, FALSE, <<>>, cfg)]
                    ELSE timeouts
     /\ tickLog' = logsFor(rotationState', tickLog)
     /\ detectionTimestamps' = IF showLatest THEN pruneDetections(detectionTimestamps, now)
                               ELSE detectionTimestamps
     /\ IF action = ACTION_IMAGE
        THEN updateImageContexts(latestImageUrl, context,
                                 IF latestDetection # Null THEN latestDetection.occurrence ELSE Null,
                                 ctxs, tl)
        ELSE /\ tiles' = tl
             /\ UNCHANGED <<imageCache, imageInFlight, fetches, waiters>>
     /\ UNCHANGED <<now, globalSettings, dailyBirds, latestDetection, latestImageUrl,
                    cacheSaveTimer, cacheFile, recorded, seenOcc, delivered, arg, ret>>

\* willDisappear for context.
WillDisappear(context) ==
  /\ contexts' = [c \in DOMAIN contexts \ {context} |-> contexts[c]]
  /\ rotationState' = stopRotation(rotationState, context)
  /\ timeouts' = [timeouts EXCEPT ![context] = stopTimeouts(@, rotationState, context)]
  /\ tickLog' = logsFor(rotationState', tickLog)
  /\ UNCHANGED <<now, settings, globalSettings, mqtt, detectionTimestamps, imageCache,
                 imageInFlight, fetches, waiters, dailyBirds, latestDetection, latestImageUrl,
                 cacheSaveTimer, cacheFile, tiles, recorded, seenOcc, delivered, arg, ret>>

\* didReceiveSettings re-arming every rotation timer with the delay under the new settings.
DidReceiveSettingsRearms(context, payloadSettings) ==
  LET cfg == merge(merge(DEFAULTS, globalSettings), payloadSettings)
      rearmed(c) == Timer(delayMs(rotationState[c].lastRareHold = Bool(TRUE), cfg))
  IN /\ contexts' = registerContext(contexts, context)
     /\ settings' = cfg
     /\ mqtt' = "connecting"
     /\ rotationState' = [c \in DOMAIN rotationState |-> [rotationState[c] EXCEPT !.timer = rearmed(c)]]
     /\ timeouts' = [c \in DOMAIN timeouts |->
                       IF c \in DOMAIN rotationState
                       THEN arm(cancel(timeouts[c], rotationState[c].timer), rearmed(c))
                       ELSE timeouts[c]]
     /\ UNCHANGED <<now, globalSettings, detectionTimestamps, imageCache, imageInFlight, fetches,
                    waiters, dailyBirds, latestDetection, latestImageUrl, cacheSaveTimer,
                    cacheFile, tiles, recorded, seenOcc, tickLog, delivered, arg, ret>>

\* didReceiveSettings for context.
DidReceiveSettings(context, payloadSettings) ==
  /\ contexts' = registerContext(contexts, context)
  /\ settings' = merge(merge(DEFAULTS, globalSettings), payloadSettings)
  /\ mqtt' = "connecting"
  /\ UNCHANGED <<now, globalSettings, detectionTimestamps, imageCache, imageInFlight, fetches,
                 waiters, dailyBirds, rotationState, timeouts,
                 latestDetection, latestImageUrl,
                 cacheSaveTimer, cacheFile, tiles, recorded, seenOcc, tickLog, delivered, arg, ret>>

\* didReceiveGlobalSettings: the event names the plugin, not an action.
DidReceiveGlobalSettings(payloadSettings) ==
  /\ globalSettings' = merge(DEFAULTS, payloadSettings)
  /\ settings' = merge(merge(DEFAULTS, globalSettings'), payloadSettings)
  /\ mqtt' = "connecting"
  /\ UNCHANGED <<now, contexts, detectionTimestamps, imageCache, imageInFlight, fetches,
                 waiters, dailyBirds, rotationState, timeouts,
                 latestDetection, latestImageUrl,
                 cacheSaveTimer, cacheFile, tiles, recorded, seenOcc, tickLog, delivered, arg, ret>>

\* sendToPlugin carrying settings.
SendToPlugin(context, payloadSettings) ==
  /\ contexts' = registerContext(contexts, context)
  /\ settings' = merge(DEFAULTS, payloadSettings)
  /\ mqtt' = "connecting"
  /\ UNCHANGED <<now, globalSettings, detectionTimestamps, imageCache, imageInFlight, fetches,
                 waiters, dailyBirds, rotationState, timeouts,
                 latestDetection, latestImageUrl,
                 cacheSaveTimer, cacheFile, tiles, recorded, seenOcc, tickLog, delivered, arg, ret>>

\* Any other event that names a context and its action (keyDown, propertyInspectorDidAppear, ...).
OtherEvent(context) ==
  /\ contexts' = registerContext(contexts, context)
  /\ UNCHANGED <<now, settings, globalSettings, mqtt, detectionTimestamps, imageCache,
                 imageInFlight, fetches, waiters, dailyBirds, rotationState, timeouts,
                 latestDetection,
                 latestImageUrl, cacheSaveTimer, cacheFile, tiles, recorded, seenOcc, tickLog,
                 delivered, arg, ret>>

----------------------------------------------------------------------------
(* Timers and the clock *)

\* A pending rotation timeout of the context fires: rotateOnce(context), which returns at once
\* when the context has no rotation state.
\* When a pending timeout fires is left open.
RotationTimerFires(context) ==
  \E timer \in DOMAIN timeouts[context] :
    LET birds == getTodayBirds(dailyBirds, now)
        fired == cancel(timeouts[context], timer)
        count == getDetectionsLastHour(detectionTimestamps, now)
    IN /\ IF context \in DOMAIN rotationState
          THEN LET state == rotationState[context]
                   after == rotateOnceState(state, birds, settings)
               IN /\ rotationState' = [rotationState EXCEPT ![context] = after]
                  /\ timeouts' = [timeouts EXCEPT ![context] =
                                    IF rotateOnceThrows(state, birds) THEN fired
                                    ELSE arm(cancel(fired, state.timer), after.timer)]
                  /\ tiles' = [tiles EXCEPT ![context] = rotateOnceTile(@, state, birds, count, settings)]
                  /\ tickLog' = [tickLog EXCEPT ![context] = rotateOnceLog(@, state, birds)]
                  /\ detectionTimestamps' = IF birds = <<>> THEN detectionTimestamps
                                            ELSE pruneDetections(detectionTimestamps, now)
          ELSE /\ timeouts' = [timeouts EXCEPT ![context] = fired]
               /\ UNCHANGED <<rotationState, tiles, tickLog, detectionTimestamps>>
       /\ UNCHANGED <<now, contexts, settings, globalSettings, mqtt, imageCache, imageInFlight,
                      fetches, waiters, dailyBirds, latestDetection, latestImageUrl, cacheSaveTimer,
                      cacheFile, recorded, seenOcc, delivered, arg, ret>>

\* JSON.stringify of a day-map record: an undefined field is left out.
recordJson(record) ==
  Obj([k \in {f \in {"name", "occurrence", "confidence", "lastSeen"} :
                 f \in {"name", "lastSeen"} \/ record[f] # Undef} |->
         IF k = "name" THEN Str(record.name)
         ELSE IF k = "lastSeen" THEN Num(record.lastSeen)
         ELSE record[k]])

\* The payload saveCache() writes.
saveCache(db, latest, latestUrl, t) ==
  [dateKey |-> IsoDate(t),
   birds |-> IF IsoDate(t) \in DOMAIN db
             THEN [i \in 1..Len(db[IsoDate(t)]) |-> recordJson(db[IsoDate(t)][i])]
             ELSE <<>>,
   latestDetection |-> latest,
   latestImageUrl |-> latestUrl]

\* scheduleCacheSave arming a timeout whether or not one is pending.
scheduleCacheSaveAgain(pending) == pending + 1

\* scheduleCacheSave(): if (cacheSaveTimer) return; otherwise one more timeout is pending.
scheduleCacheSave(pending) == IF pending > 0 THEN pending ELSE pending + 1

\* The debounced save timer fires: cacheSaveTimer = null; saveCache().
CacheSaveTimerFires ==
  /\ cacheSaveTimer > 0
  /\ cacheSaveTimer' = cacheSaveTimer - 1
  /\ cacheFile' = saveCache(dailyBirds, latestDetection, latestImageUrl, now)
  /\ UNCHANGED <<now, contexts, settings, globalSettings, mqtt, detectionTimestamps, imageCache,
                 imageInFlight, fetches, waiters, dailyBirds, rotationState, timeouts,
                 latestDetection,
                 latestImageUrl, tiles, recorded, seenOcc, tickLog, delivered, arg, ret>>

\* Time passes: the clock reads t.
Advance(t) ==
  /\ t > now
  /\ now' = t
  /\ UNCHANGED <<contexts, settings, globalSettings, mqtt, detectionTimestamps, imageCache,
                 imageInFlight, fetches, waiters, dailyBirds, rotationState, timeouts,
                 latestDetection,
                 latestImageUrl, cacheSaveTimer, cacheFile, tiles, recorded, seenOcc, tickLog,
                 delivered, arg, ret>>

----------------------------------------------------------------------------
(* MQTT events *)

\* The loop without its test of the action: every registered context is titled.
titleEvery(tl, ctxs, title) ==
  [c \in DOMAIN tl |-> IF c \in DOMAIN ctxs THEN setTitle(tl[c], title) ELSE tl[c]]

\* forEachContext(null, ...) setting title on every context whose action is not the image.
titleNonImage(tl, ctxs, title) ==
  [c \in DOMAIN tl |->
     IF c \in DOMAIN ctxs /\ ctxs[c] # ACTION_IMAGE THEN setTitle(tl[c], title) ELSE tl[c]]

\* mqttClient.on("connect"): the client subscribes to the topic.
MqttConnect ==
  /\ mqtt = "connecting"
  /\ mqtt' = "connected"
  /\ UNCHANGED <<now, contexts, settings, globalSettings, detectionTimestamps, imageCache,
                 imageInFlight, fetches, waiters, dailyBirds, rotationState, timeouts,
                 latestDetection,
                 latestImageUrl, cacheSaveTimer, cacheFile, tiles, recorded, seenOcc, tickLog,
                 delivered, arg, ret>>

\* The subscribe callback, with or without an error.
MqttSubscribed(err) ==
  /\ mqtt = "connected"
  /\ mqtt' = IF err THEN "connected" ELSE "subscribed"
  /\ tiles' = titleNonImage(tiles, contexts, IF err THEN MqttErr ELSE Waiting)
  /\ UNCHANGED <<now, contexts, settings, globalSettings, detectionTimestamps, imageCache,
                 imageInFlight, fetches, waiters, dailyBirds, rotationState, timeouts,
                 latestDetection,
                 latestImageUrl, cacheSaveTimer, cacheFile, recorded, seenOcc, tickLog,
                 delivered, arg, ret>>

\* mqttClient.on("error")
MqttError ==
  /\ mqtt # "none"
  /\ tiles' = titleNonImage(tiles, contexts, MqttErr)
  /\ UNCHANGED <<now, contexts, settings, globalSettings, mqtt, detectionTimestamps, imageCache,
                 imageInFlight, fetches, waiters, dailyBirds, rotationState, timeouts,
                 latestDetection,
                 latestImageUrl, cacheSaveTimer, cacheFile, recorded, seenOcc, tickLog,
                 delivered, arg, ret>>

MaxRecorded == 2

\* History of updateDailyBirds: the numeric occurrences upserted per species under the held key.
seenAfter(seen, db, detection, t) ==
  LET base == IF dateKeyOf(detection, t) \in DOMAIN db THEN seen ELSE EmptyMap
      old == IF detection.name \in DOMAIN base THEN base[detection.name] ELSE {}
      new == IF IsNumber(detection.occurrence) THEN old \cup {detection.occurrence.v} ELSE old
  IN merge(base, detection.name :> new)

\* A detection the handler acts on: if (detection && detection.name)
accepted(detection) == detection # Null /\ detection.name # <<>>

\* The handler taking every message for a live one.
isLiveAlways(isRetained) == TRUE

\* The live branch of the handler: if (!isRetained)
isLive(isRetained) == ~isRetained

\* mqttClient.on("message") for a message with this body and retain flag.
\* An exception of setImageTitle ends the handler where it is thrown: on the first text or meter
\* key when the name of the detection cannot be encoded, else inside the loop over the rotation
\* keys, at the first key whose tick reads such a name. The keys restarted before that one are
\* those the Map iterates first; the order of registration is not kept here, so any set of the
\* keys whose tick does not throw may have come first.
MqttMessage(body, isRetained) ==
  LET detection == parsePayload(body, settings.payloadKey)
      ok == accepted(detection)
      live == isLive(isRetained)
      db == IF ok THEN updateDailyBirds(dailyBirds, detection, now) ELSE dailyBirds
      ts == IF ok /\ live THEN recordDetection(detectionTimestamps, now) ELSE detectionTimestamps
      count == getDetectionsLastHour(ts, now)
      display == formatTitle(detection.name, detection.confidence, count, detection.occurrence, settings)
      birds == getTodayBirds(db, now)
      shown == contextsOf(contexts, ACTION_TEXT) \cup contextsOf(contexts, ACTION_BORDER)
      thrownAtDisplay == ok /\ shown # {} /\ URIError(display.name)
      reached == IF ok /\ live /\ ~thrownAtDisplay THEN contextsOf(contexts, ACTION_TODAY) ELSE {}
      throwers == {c \in reached : rotateOnceThrows(startState(rotationState, c), birds)}
      thrown == thrownAtDisplay \/ throwers # {}
      restarted == IF throwers = {} THEN {reached}
                   ELSE {before \cup {last} : before \in SUBSET (reached \ throwers), last \in throwers}
      tl(todays) ==
        [c \in DOMAIN tiles |->
           IF ok /\ c \in contextsOf(contexts, ACTION_TEXT) THEN setImageTitle(tiles[c], display, "text")
           ELSE IF ok /\ c \in contextsOf(contexts, ACTION_BORDER) THEN setImageTitle(tiles[c], display, "border")
           ELSE IF c \in todays
             THEN rotateOnceTile(tiles[c], startState(rotationState, c), birds, count, settings)
           ELSE tiles[c]]
  IN /\ mqtt = "subscribed"
     /\ isRetained \/ Len(recorded) < MaxRecorded
     /\ dailyBirds' = db
     /\ seenOcc' = IF ok THEN seenAfter(seenOcc, dailyBirds, detection, now) ELSE seenOcc
     /\ cacheSaveTimer' = IF ok THEN scheduleCacheSave(cacheSaveTimer) ELSE cacheSaveTimer
     /\ latestDetection' = IF ok THEN detection ELSE latestDetection
     /\ latestImageUrl' = IF ok /\ Truthy(detection.imageUrl) THEN detection.imageUrl ELSE latestImageUrl
     /\ detectionTimestamps' = IF ok THEN pruneDetections(ts, now) ELSE detectionTimestamps
     /\ recorded' = IF ok /\ live THEN Append(recorded, now) ELSE recorded
     /\ \E todays \in restarted :
          /\ rotationState' =
               [c \in DOMAIN rotationState \cup todays |->
                  IF c \in todays THEN startRotation(rotationState, c, TRUE, birds, settings)[c]
                  ELSE rotationState[c]]
          /\ timeouts' =
               [c \in DOMAIN timeouts |->
                  IF c \in todays THEN startTimeouts(timeouts[c], rotationState, c, TRUE, birds, settings)
                  ELSE timeouts[c]]
          /\ tickLog' =
               [c \in DOMAIN rotationState' |->
                  IF c \in todays
                  THEN rotateOnceLog(IF c \in DOMAIN tickLog THEN tickLog[c] ELSE NoLog,
                                     startState(rotationState, c), birds)
                  ELSE tickLog[c]]
          /\ IF detection # Null /\ Truthy(detection.imageUrl) /\ live /\ ~thrown
             THEN updateImageContexts(detection.imageUrl, NoContext, detection.occurrence, contexts,
                                      tl(todays))
             ELSE /\ tiles' = tl(todays)
                  /\ UNCHANGED <<imageCache, imageInFlight, fetches, waiters>>
     /\ UNCHANGED <<now, contexts, settings, globalSettings, mqtt, cacheFile, delivered, arg, ret>>

----------------------------------------------------------------------------
(* Inputs *)

\* The text of a body that parses: only its outer form is kept, the program reads the text
\* through trim(), as empty or not, and as the name of last resort.
jsonText(doc) ==
  CASE doc.t = "obj" -> <<"{", "}">>
    [] doc.t = "arr" -> <<"[", "]">>
    [] doc.t = "str" -> <<"\"">> \o doc.v \o <<"\"">>
    [] doc.t = "num" -> NumText(doc.v)
    [] OTHER -> String(doc)

JsonBody(doc) == [text |-> jsonText(doc), doc |-> doc]
RawBody(text) == [text |-> text, doc |-> SyntaxError]

Field(name, value) == IF value = Undef THEN EmptyMap ELSE (name :> value)

\* A BirdNET-Go style detection message.
BirdMessage(name, occurrence, imageUrl, date) ==
  JsonBody(Obj(Field("CommonName", Str(name)) @@ Field("occurrence", occurrence)
               @@ Field("BirdImage", IF imageUrl = Undef THEN Undef ELSE Obj(Field("URL", imageUrl)))
               @@ Field("Date", date)))

NormalizerBodies ==
  { RawBody(<<>>), RawBody(<<" ">>), RawBody(<<" ", " ">>),
    RawBody(<<"American", " ", "Robin">>), RawBody(<<" ", "Jay", " ">>), RawBody(<<"{", "bad">>),
    JsonBody(Null), JsonBody(Str(<<"Robin">>)), JsonBody(Num(42 * One)), JsonBody(Arr(<<>>)),
    JsonBody(Obj(EmptyMap)),
    JsonBody(Obj([CommonName |-> Str(<<"Blue", " ", "Jay">>), Confidence |-> Num(87), occurrence |-> Num(5)])),
    JsonBody(Obj([CommonName |-> Str(<<>>), species |-> Str(<<"Wren">>), confidence |-> Str(<<"0", ".", "9">>)])),
    JsonBody(Obj([CommonName |-> Str(<<" ">>)])),
    JsonBody(Obj([CommonName |-> Num(7 * One)])),
    JsonBody(Obj([CommonName |-> Obj([en |-> Str(<<"Jay">>)])])),
    JsonBody(Obj([CommonName |-> Arr(<<>>)])),
    JsonBody(Obj([CommonName |-> Arr(<<Str(<<"Jay">>), Str(<<"Wren">>)>>)])),
    JsonBody(Obj([results |-> Arr(<<Obj([species |-> Str(<<"Owl">>)])>>), Date |-> Str(<<" ", "d", "2", " ">>)])),
    JsonBody(Obj([attributes |-> Obj([common_name |-> Str(<<"Finch">>), confidence |-> Num(50)]),
                  BirdImage |-> Obj([URL |-> Str(<<"u1">>)])])),
    JsonBody(Obj([name |-> Str(<<"Jay">>), occurrence |-> Str(<<"abc">>), image |-> Str(<<" ", "u2">>)])),
    JsonBody(Obj([Confidence |-> Num(87)])) }

PayloadKeys ==
  { Str(<<"CommonName">>), Str(<<>>), Str(<<".">>), Undef,
    Str(<<"results", ".", "0", ".", " ", "species">>), Str(<<"attributes", ".", "common_name">>) }

ThresholdValues ==
  { Num(0 - 20), Num(0), Num(10), Num(40), Num(70), Num(One), Num(150),
    Str(<<"0", ".", "5">>), Str(<<"x">>), Undef }

OccurrenceValues ==
  { Null, Undef, Num(0 - 5), Num(0), Num(5), Num(10), Num(11), Num(40), Num(41), Num(50),
    Num(70), Num(71), Num(One), Num(120) }

Thresholds(epic, rare, uncommon) ==
  [epicOccurrenceThreshold |-> epic, rareOccurrenceThreshold |-> rare,
   uncommonOccurrenceThreshold |-> uncommon]

Idle == [t |-> "idle"]
Returned(value) == [t |-> "ret", v |-> value]

----------------------------------------------------------------------------
(* The normaliser on one body *)

InitNormalizer ==
  /\ \E key \in PayloadKeys : Boot(Null, StartNow, merge(DEFAULTS, [payloadKey |-> key]))
  /\ arg \in NormalizerBodies
  /\ ret = Idle

Normalize ==
  /\ ret = Idle
  /\ ret' = Returned(parsePayload(arg, settings.payloadKey))
  /\ UNCHANGED <<now, contexts, settings, globalSettings, mqtt, detectionTimestamps, imageCache,
                 imageInFlight, fetches, waiters, dailyBirds, rotationState, timeouts,
                 latestDetection,
                 latestImageUrl, cacheSaveTimer, cacheFile, tiles, recorded, seenOcc, tickLog,
                 delivered, arg>>

SpecNormalizer == InitNormalizer /\ [][Normalize]_vars

\* C10: the normaliser never fails; an empty or whitespace-only body yields no Detection, every
\* other body yields a Detection with a non-empty name, and a body that does not parse yields
\* the trimmed body as name with confidence, occurrence, imageUrl and detectionDate all null.
C10_NormalizerTotal ==
  ret # Idle =>
    IF trim(arg.text) = <<>> THEN ret.v = Null
    ELSE /\ ret.v # Null
         /\ ret.v.name # <<>>
         /\ arg.doc = SyntaxError => ret.v = Detection(trim(arg.text), Null, Null, Null, Null)

----------------------------------------------------------------------------
(* The classifier on one occurrence *)

InitRarity ==
  /\ \E epic \in ThresholdValues, rare \in ThresholdValues, uncommon \in ThresholdValues :
       Boot(Null, StartNow, merge(DEFAULTS, Thresholds(epic, rare, uncommon)))
  /\ arg \in OccurrenceValues
  /\ ret = Idle

Classify ==
  /\ ret = Idle
  /\ ret' = Returned(getCommonality(arg, settings))
  /\ UNCHANGED <<now, contexts, settings, globalSettings, mqtt, detectionTimestamps, imageCache,
                 imageInFlight, fetches, waiters, dailyBirds, rotationState, timeouts,
                 latestDetection,
                 latestImageUrl, cacheSaveTimer, cacheFile, tiles, recorded, seenOcc, tickLog,
                 delivered, arg>>

SpecRarity == InitRarity /\ [][Classify]_vars


\* C7: whatever triple is configured, out of range or out of order, the cutoffs the classifier
\* uses satisfy 0 <= epic' <= rare' <= uncommon' <= 1.
C7_CutoffsMonotonic ==
  /\ 0 <= epicCutoff(settings)
  /\ epicCutoff(settings) <= rareCutoff(settings)
  /\ rareCutoff(settings) <= uncommonCutoff(settings)
  /\ uncommonCutoff(settings) <= One

\* C7's case: a triple that is out of range and out of order has been classified with.
C7_Witness ==
  /\ ret # Idle
  /\ settings.epicOccurrenceThreshold = Num(150)
  /\ settings.rareOccurrenceThreshold = Num(0 - 20)
  /\ settings.uncommonOccurrenceThreshold = Num(10)
  /\ rareCutoff(settings) = One

\* The cutoffs as the specification derives them: clamp each to [0,1], then raise rare to epic
\* and uncommon to rare.  A setting that is no finite number counts as its default.
C9_Clamp(x) == Max(0, Min(One, x))
C9_Tier(occurrence, cfg) ==
  LET e == C9_Clamp(finiteOr(cfg.epicOccurrenceThreshold, DEFAULTS.epicOccurrenceThreshold))
      r0 == C9_Clamp(finiteOr(cfg.rareOccurrenceThreshold, DEFAULTS.rareOccurrenceThreshold))
      u0 == C9_Clamp(finiteOr(cfg.uncommonOccurrenceThreshold, DEFAULTS.uncommonOccurrenceThreshold))
      r == Max(e, r0)
      u == Max(r, u0)
  IN IF occurrence.t # "num" THEN "Unknown"
     ELSE IF occurrence.v <= e THEN "Epic"
     ELSE IF occurrence.v <= r THEN "Rare"
     ELSE IF occurrence.v <= u THEN "Uncommon"
     ELSE "Common"

\* C9: the tier is Epic if occurrence <= epicCutoff, else Rare if <= rareCutoff, else Uncommon if
\* <= uncommonCutoff, else Common, over the clamped monotonic cutoffs; a missing occurrence is
\* Unknown; with the default thresholds 0.05 is Epic.
C9_Classification ==
  ret # Idle =>
    /\ ret.v = C9_Tier(arg, settings)
    /\ (settings = DEFAULTS /\ arg = Num(5)) => ret.v = "Epic"

\* C9's case: 0.05 classified under the default thresholds.
C9_Witness == ret = Returned("Epic") /\ settings = DEFAULTS /\ arg = Num(5)

----------------------------------------------------------------------------
(* The pipeline: a rotating tile and a text tile fed by the broker *)

Jay == <<"Jay">>
Owl == <<"Owl">>
Wren == <<"Wren">>

\* The pipeline runs inside one UTC day: it starts at the midnight that opens day 1.
PipelineStart == DayMs
PipelineTimes == {PipelineStart, PipelineStart + 2 * HourMs}
PipelineContexts == {"today1"}
PipelineBodies ==
  { BirdMessage(Jay, Num(20), Undef, Undef),
    BirdMessage(Owl, Num(50), Undef, Undef) }

\* The broker replays the last message it retained for the topic.
RetainedBodies == { BirdMessage(Jay, Num(20), Undef, Undef) }

\* The cache file a run of the same day left behind: one species, seen at t.
CacheBird(name, occurrence, t) ==
  Obj(("name" :> Str(name)) @@ Field("occurrence", occurrence) @@ ("lastSeen" :> Num(t)))
CacheFile(dateKey, birds, latest, latestUrl) ==
  [dateKey |-> dateKey, birds |-> birds, latestDetection |-> latest, latestImageUrl |-> latestUrl]
PipelineFile ==
  CacheFile(IsoDate(PipelineStart), <<CacheBird(Wren, Num(5), PipelineStart)>>, Null, Null)

Init ==
  /\ Boot(PipelineFile, PipelineStart, DEFAULTS)
  /\ arg = Null
  /\ ret = Idle

Next ==
  \/ \E c \in PipelineContexts : WillAppear(c, EmptyMap)
  \/ \E c \in PipelineContexts : WillDisappear(c)
  \/ MqttConnect
  \/ MqttSubscribed(FALSE)
  \/ \E b \in PipelineBodies : MqttMessage(b, FALSE)
  \/ \E b \in RetainedBodies : MqttMessage(b, TRUE)
  \/ \E c \in PipelineContexts : RotationTimerFires(c)
  \/ \E t \in PipelineTimes : Advance(t)

Spec == Init /\ [][Next]_vars

\* C1: over one unchanged list of N >= 1 species, the consecutive ticks of a rotation context
\* show, within any N of them, each species once, each tick showing the cyclic successor (in the
\* order of todaySpecies()) of the one before, and the (N+1)th shows again what the first showed;
\* the tile shows the species of the latest tick.
C1_RotationCycles ==
  \A c \in DOMAIN tickLog :
    LET list == tickLog[c].list
        shown == tickLog[c].shown
        n == Len(list)
    IN /\ \A i, j \in 1..Len(shown) : (i < j /\ j - i < n) => shown[i] # shown[j]
       /\ \A i \in 1..(Len(shown) - 1) :
            \E p \in 1..n : list[p] = shown[i] /\ list[(p % n) + 1] = shown[i + 1]
       /\ Len(shown) = n + 1 => shown[n + 1] = shown[1]
       /\ shown # <<>> =>
            /\ tiles[c].image # Null
            /\ tiles[c].image.variant = "today"
            /\ tiles[c].image.display.name = shown[Len(shown)]

\* C1's case: four consecutive ticks over a list of three species.
C1_Witness ==
  /\ "today1" \in DOMAIN tickLog
  /\ Len(tickLog["today1"].list) = 3
  /\ Len(tickLog["today1"].shown) = 4

\* The entries of the rolling window that a read at time t counts.
InWindow(ts, t) == SelectSeq(ts, LAMBDA x : x >= t - HourMs)

\* C8: a message tagged retained appends nothing to the rolling window and leaves the hourly
\* count and the counted entries as they were (entries that had already left the window may be
\* dropped by the lazy prune), and leaves every rotation context's index and armed timer as
\* they were.
C8_RetainedFrame ==
  [][\A b \in RetainedBodies :
       MqttMessage(b, TRUE) =>
         /\ recorded' = recorded
         /\ getDetectionsLastHour(detectionTimestamps', now') =
              getDetectionsLastHour(detectionTimestamps, now)
         /\ InWindow(detectionTimestamps', now') = InWindow(detectionTimestamps, now)
         /\ rotationState' = rotationState]_vars

\* C8's case: with a rotation armed, the species of the latest detection was upserted later
\* than the last timestamp the window ever recorded, so the message was a retained one.
C8_Witness ==
  /\ "today1" \in DOMAIN rotationState
  /\ rotationState["today1"].timer # Null
  /\ recorded # <<>>
  /\ latestDetection # Null
  /\ \E k \in DOMAIN dailyBirds : \E i \in 1..Len(dailyBirds[k]) :
       /\ dailyBirds[k][i].name = latestDetection.name
       /\ dailyBirds[k][i].lastSeen > recorded[Len(recorded)]

----------------------------------------------------------------------------
(* The rolling counter at the edges of its window *)

CounterTimes ==
  { StartNow, StartNow + 1, StartNow + HourMs - 1, StartNow + HourMs, StartNow + HourMs + 1,
    StartNow + 2 * HourMs }
CounterBodies == { BirdMessage(Jay, Num(20), Undef, Undef) }

InitCounter ==
  /\ Boot(Null, StartNow, DEFAULTS)
  /\ arg = Null
  /\ ret = Idle

NextCounter ==
  \/ WillAppear("text1", EmptyMap)
  \/ MqttConnect
  \/ MqttSubscribed(FALSE)
  \/ \E b \in CounterBodies, r \in BOOLEAN : MqttMessage(b, r)
  \/ \E t \in CounterTimes : Advance(t)

SpecCounter == InitCounter /\ [][NextCounter]_vars

\* The recorded timestamps ts with lo <= ts <= hi.
RecordedIn(lo, hi) == Cardinality({i \in DOMAIN recorded : lo <= recorded[i] /\ recorded[i] <= hi})

\* C3 (as the code has it): after any non-decreasing sequence of record(now) calls, a query at
\* time t not earlier than the last record returns the number of recorded timestamps ts with
\* t - 3,600,000 <= ts <= t: a timestamp exactly 3,600,000 ms old is still counted.
C3_CountClosedWindow ==
  getDetectionsLastHour(detectionTimestamps, now) = RecordedIn(now - HourMs, now)

\* C3 (as stated): the count is the number of recorded timestamps ts with
\* t - 3,600,000 < ts <= t.
C3_CountOpenWindow ==
  getDetectionsLastHour(detectionTimestamps, now) = RecordedIn(now - HourMs + 1, now)

\* C3's case: a query exactly 3,600,000 ms after a record, and one more than that after another.
C3_Witness ==
  /\ \E i \in DOMAIN recorded : recorded[i] = now - HourMs
  /\ \E i \in DOMAIN recorded : recorded[i] < now - HourMs

----------------------------------------------------------------------------
(* The daily aggregate across midnight, with dated and undated messages *)

DailyTimes == {StartNow, StartNow + HourMs}
Day1 == IsoDate(StartNow)
Day2 == IsoDate(StartNow + HourMs)
DailyBodies ==
  { BirdMessage(Jay, occurrence, Undef, Undef) : occurrence \in {Undef, Num(20), Num(50)} }
  \cup { BirdMessage(Jay, Num(50), Undef, Str(Day1)), BirdMessage(Jay, Num(20), Undef, Str(Day2)) }
DailyFiles ==
  { Null,
    CacheFile(Day1, <<CacheBird(Wren, Num(5), StartNow - HourMs)>>, Null, Null),
    CacheFile(IsoDate(StartNow - DayMs), <<CacheBird(Wren, Num(5), StartNow - DayMs)>>, Null, Null) }

InitDaily ==
  /\ \E file \in DailyFiles : Boot(file, StartNow, DEFAULTS)
  /\ arg = Null
  /\ ret = Idle

NextDaily ==
  \/ WillAppear("text1", EmptyMap)
  \/ MqttConnect
  \/ MqttSubscribed(FALSE)
  \/ \E b \in DailyBodies, r \in BOOLEAN : MqttMessage(b, r)
  \/ \E t \in DailyTimes : Advance(t)

SpecDaily == InitDaily /\ [][NextDaily]_vars

\* The least element of a non-empty set of numbers.
Least(S) == CHOOSE x \in S : \A y \in S : x <= y

\* C4: under the held date key, the stored occurrence of a species is the minimum of the
\* numeric occurrences upserted for it, whatever their order, and is no number when none was
\* numeric; so an upsert without an occurrence leaves the stored one as it was.
C4_MinimumWins ==
  \A k \in DOMAIN dailyBirds : \A i \in 1..Len(dailyBirds[k]) :
    LET record == dailyBirds[k][i]
        seen == IF record.name \in DOMAIN seenOcc THEN seenOcc[record.name] ELSE {}
    IN IF seen = {} THEN ~IsNumber(record.occurrence)
       ELSE record.occurrence = Num(Least(seen))

\* C4's case: 0.2 then 0.5 were upserted for one species, the latest upsert being the 0.5 one.
C4_Witness ==
  /\ latestDetection # Null
  /\ latestDetection.name = Jay
  /\ latestDetection.occurrence = Num(50)
  /\ Jay \in DOMAIN seenOcc
  /\ seenOcc[Jay] = {20, 50}
  /\ \E k \in DOMAIN dailyBirds : \E i \in 1..Len(dailyBirds[k]) :
       dailyBirds[k][i].name = Jay /\ dailyBirds[k][i].occurrence = Num(20)

\* C5: an upsert whose date key differs from the stored one leaves todaySpecies() returning
\* the species upserted under the new key, and none recorded under the prior key.
C5_Rollover ==
  [][\A b \in DailyBodies, r \in BOOLEAN :
       LET detection == parsePayload(b, settings.payloadKey)
       IN (/\ MqttMessage(b, r)
           /\ DOMAIN dailyBirds # {}
           /\ dateKeyOf(detection, now) \notin DOMAIN dailyBirds)
          => birdNames(getTodayBirds(dailyBirds', now')) = <<detection.name>>]_vars

\* The time of the latest upsert (or load) of a day map.
LastUpsert(dayMap) == CHOOSE t \in {dayMap[i].lastSeen : i \in 1..Len(dayMap)} :
                        \A i \in 1..Len(dayMap) : dayMap[i].lastSeen <= t

\* C6 (as the code has it): the aggregate holds at most one date key, and that key is the date
\* key of the latest upsert, the date the detection carried or else the UTC day at that time,
\* or the UTC day of the startup load; it is the current day only until the clock passes
\* midnight, and then again after the next undated upsert.
C6_SingleKey ==
  /\ Cardinality(DOMAIN dailyBirds) <= 1
  /\ \A k \in DOMAIN dailyBirds :
       \/ k = IsoDate(LastUpsert(dailyBirds[k]))
       \/ /\ latestDetection # Null
          /\ Truthy(latestDetection.detectionDate)
          /\ k = latestDetection.detectionDate.v

\* C6 (as stated): at most one date key, and that key is the current day.
C6_SingleKeyToday ==
  /\ Cardinality(DOMAIN dailyBirds) <= 1
  /\ \A k \in DOMAIN dailyBirds : k = IsoDate(now)

\* C6's case: the clock has passed midnight over an aggregate upserted the day before.
C6_Witness ==
  /\ now = StartNow + HourMs
  /\ DOMAIN dailyBirds = {Day1}
  /\ latestDetection # Null
  /\ \E i \in 1..Len(dailyBirds[Day1]) : dailyBirds[Day1][i].name = latestDetection.name

----------------------------------------------------------------------------
(* The image cache under overlapping requests *)

Url1 == <<"u", "1">>
Url2 == <<"u", "2">>
ImageContexts == {"image1"}
ImageBodies ==
  { BirdMessage(Jay, Num(20), Str(Url1), Undef),
    BirdMessage(Owl, Num(50), Str(Url2), Undef) }

InitImage ==
  /\ Boot(Null, StartNow, DEFAULTS)
  /\ arg = Null
  /\ ret = Idle

NextImage ==
  \/ \E c \in ImageContexts : WillAppear(c, EmptyMap)
  \/ \E c \in ImageContexts : WillDisappear(c)
  \/ MqttConnect
  \/ MqttSubscribed(FALSE)
  \/ \E b \in ImageBodies : MqttMessage(b, FALSE)
  \/ \E id \in 1..MaxFetches, ok \in BOOLEAN : FetchSettles(id, ok)

SpecImage == InitImage /\ [][NextImage]_vars

\* C2: while a request for a URL has not settled, further calls for that URL issue no request:
\* at most one request per URL is pending, every caller still waiting is attached to the one
\* pending request of its URL, and at a settlement every attached caller receives the same
\* outcome, the same data or the same failure.
C2_FetchDeduplicated ==
  /\ \A i, j \in DOMAIN fetches :
       (fetches[i].state = "pending" /\ fetches[j].state = "pending"
          /\ fetches[i].url = fetches[j].url) => i = j
  /\ \A k \in DOMAIN waiters :
       LET id == waiters[k].fetch
       IN /\ fetches[id].state = "pending"
          /\ fetches[id].url \in DOMAIN imageInFlight
          /\ imageInFlight[fetches[id].url] = id
  /\ \A i, j \in DOMAIN delivered :
       /\ delivered[i].caller.fetch = delivered[j].caller.fetch
       /\ delivered[i].outcome = delivered[j].outcome

\* C2's case: two callers of one URL were attached to one request, which has delivered its data.
C2_Witness ==
  /\ Len(delivered) = 2
  /\ delivered[1].caller.specific # delivered[2].caller.specific
  /\ delivered[1].outcome = DataUri(Url1, delivered[1].caller.fetch)
  /\ Cardinality({i \in DOMAIN fetches : fetches[i].url = Url1}) = 1

\* C15: a fetch that fails stores nothing in the image cache and changes no tile; a settlement,
\* failed or not, removes the in-flight entry of its URL; and a call for a URL that is neither
\* cached nor in flight, as after a failure, issues a new network request.
C15_FailureNotCached ==
  [][/\ \A id \in DOMAIN fetches :
          /\ FetchSettles(id, FALSE) => (imageCache' = imageCache /\ tiles' = tiles)
          /\ (FetchSettles(id, FALSE) \/ FetchSettles(id, TRUE)) =>
               fetches[id].url \notin DOMAIN imageInFlight'
     /\ Len(waiters') > Len(waiters) =>
          LET caller == waiters'[Len(waiters')]
              url == fetches'[caller.fetch].url
          IN /\ url \notin DOMAIN imageCache
             /\ url \notin DOMAIN imageInFlight =>
                  (Len(fetches') = Len(fetches) + 1 /\ caller.fetch = Len(fetches'))]_vars

\* C15's case: the request for a URL failed, and a later call for the URL issued a second one.
C15_Witness ==
  /\ Len(fetches) = 2
  /\ fetches[1] = [url |-> Url1, state |-> "failed"]
  /\ fetches[2].url = Url1

\* C25: nothing orders the images by detection: a request that delivers its data puts it on the
\* key of every context its callers name (the given context, or else every registered image
\* context), whatever the URL of the latest detection is by then.
C25_NoOrderingGuard ==
  [][\A id \in 1..MaxFetches :
       FetchSettles(id, TRUE) =>
         \A k \in DOMAIN waiters :
           waiters[k].fetch = id =>
             \A c \in (IF waiters[k].specific # NoContext THEN {waiters[k].specific}
                        ELSE contextsOf(contexts, ACTION_IMAGE)) :
               /\ tiles'[c].image # Null
               /\ tiles'[c].image.data = DataUri(fetches[id].url, id)]_vars

\* C25's case: two live detections carried Url1 and then Url2; the request for Url2 delivered
\* first, the request for Url1 delivered last to the registered image contexts, and the key shows
\* the image of Url1 while the latest detection's is that of Url2.
C25_Witness ==
  /\ Len(fetches) = 2
  /\ fetches[1] = [url |-> Url1, state |-> "ok"]
  /\ fetches[2] = [url |-> Url2, state |-> "ok"]
  /\ latestImageUrl = Str(Url2)
  /\ "image1" \in DOMAIN contexts
  /\ Len(recorded) = 2
  /\ delivered # <<>>
  /\ delivered[1].caller = Waiter(1, NoContext, Num(20))
  /\ delivered[1].outcome = DataUri(Url1, 1)
  /\ tiles["image1"].image = renderImageWithDot(DataUri(Url1, 1), Num(20))

----------------------------------------------------------------------------
(* The debounced save of the cache file *)

SaveBodies ==
  { BirdMessage(Jay, Num(20), Undef, Undef),
    BirdMessage(Owl, Num(50), Str(Url1), Undef) }

\* The plugin starts with no cache file.
InitNoCache ==
  /\ Boot(Null, StartNow, DEFAULTS)
  /\ arg = Null
  /\ ret = Idle

NextSave ==
  \/ WillAppear("text1", EmptyMap)
  \/ MqttConnect
  \/ MqttSubscribed(FALSE)
  \/ \E b \in SaveBodies, r \in BOOLEAN : MqttMessage(b, r)
  \/ CacheSaveTimerFires
  \/ \E t \in DailyTimes : Advance(t)

SpecSave == InitNoCache /\ [][NextSave]_vars

\* C11: at most one save timeout is pending; with none pending the file holds the aggregate
\* and the latest detection as they are (nothing was upserted since the write, and the write
\* took the state of the moment the timeout fired); an upsert arriving while a timeout is
\* pending adds no timeout and writes nothing, and each write uses up the one pending timeout.
C11_Debounce ==
  /\ [](/\ cacheSaveTimer <= 1
        /\ cacheSaveTimer = 0 =>
             IF cacheFile = Null THEN dailyBirds = EmptyMap /\ latestDetection = Null
             ELSE \E t \in DailyTimes :
                    t <= now /\ cacheFile = saveCache(dailyBirds, latestDetection, latestImageUrl, t))
  /\ [][/\ (cacheSaveTimer = 1 /\ dailyBirds' # dailyBirds) =>
             (cacheSaveTimer' = 1 /\ cacheFile' = cacheFile)
        /\ cacheFile' # cacheFile => (cacheSaveTimer = 1 /\ cacheSaveTimer' = 0)]_vars

\* C11's case: two upserts were made while one timeout was pending, and its one write holds both.
C11_Witness ==
  /\ cacheSaveTimer = 0
  /\ cacheFile # Null
  /\ Len(cacheFile.birds) = 2
  /\ \A i \in 1..2 : Get(cacheFile.birds[i], "lastSeen") = Num(now)
  /\ Len(recorded) = 2

----------------------------------------------------------------------------
(* The life of a rotation context: host events, broker callbacks and ticks *)

NextLifecycle ==
  \/ \E c \in PipelineContexts : WillAppear(c, EmptyMap)
  \/ \E c \in PipelineContexts : WillDisappear(c)
  \/ \E c \in PipelineContexts : DidReceiveSettings(c, EmptyMap)
  \/ \E c \in PipelineContexts : OtherEvent(c)
  \/ MqttConnect
  \/ \E err \in BOOLEAN : MqttSubscribed(err)
  \/ MqttError
  \/ \E b \in RetainedBodies, r \in BOOLEAN : MqttMessage(b, r)
  \/ \E c \in PipelineContexts : RotationTimerFires(c)

SpecLifecycle == InitNoCache /\ [][NextLifecycle]_vars

\* A callback of the broker connection that puts a placeholder title on the registered keys.
BrokerStatus == MqttSubscribed(TRUE) \/ MqttSubscribed(FALSE) \/ MqttError

C13_Lifecycle ==
  [][\A c \in PipelineContexts :
       /\ (c \notin DOMAIN rotationState /\ c \in DOMAIN rotationState') => WillAppear(c, EmptyMap)
       /\ (c \in DOMAIN rotationState /\ c \notin DOMAIN rotationState') => WillDisappear(c)
       /\ WillAppear(c, EmptyMap) => c \in DOMAIN rotationState'
       /\ WillDisappear(c) => c \notin DOMAIN rotationState'
       /\ c \in DOMAIN rotationState' => rotationState'[c].timer # Null]_vars

----------------------------------------------------------------------------
(* Startup from the cache file of the same day, of the day before, or from none *)

LoadFiles ==
  { Null,
    CacheFile(Day1, <<CacheBird(Wren, Num(5), StartNow - HourMs)>>,
              Detection(Wren, Null, Null, Num(5), Null), Str(Url1)),
    CacheFile(IsoDate(StartNow - DayMs), <<CacheBird(Wren, Num(5), StartNow - DayMs)>>,
              Detection(Wren, Null, Null, Num(5), Null), Str(Url1)) }

InitLoad ==
  /\ \E file \in LoadFiles : Boot(file, StartNow, DEFAULTS)
  /\ arg = Null
  /\ ret = Idle

SpecLoad == InitLoad /\ [][NextDaily]_vars

\* C14: until the first host event the state is what the load left: a snapshot whose dateKey
\* is not today, or a load that failed, leaves an empty daily aggregate, no latest detection and
\* no latest image URL; a snapshot of today is taken in.
C14_LoadAcceptance ==
  mqtt = "none" =>
    IF cacheFile # Null /\ cacheFile.dateKey = Day1
    THEN /\ DOMAIN dailyBirds = {cacheFile.dateKey}
         /\ latestDetection = cacheFile.latestDetection
         /\ latestImageUrl = cacheFile.latestImageUrl
    ELSE /\ dailyBirds = EmptyMap
         /\ latestDetection = Null
         /\ latestImageUrl = Null

----------------------------------------------------------------------------
(* Rotation under changing settings: the list starts empty, bags arrive while timers are armed *)

\* Settings bags the property inspector sends: nothing set; a longer interval and hold; and an
\* epic threshold above the rare one.
SlowBag == [rotationSeconds |-> Num(8 * One), rareHoldMultiplier |-> Num(3 * One)]
InvertedBag == [epicOccurrenceThreshold |-> Num(50), rareOccurrenceThreshold |-> Num(10)]
ConfigBags == {EmptyMap, SlowBag, InvertedBag}

\* A species with an occurrence and one without.
ConfigBodies ==
  { BirdMessage(Jay, Num(20), Undef, Undef),
    BirdMessage(Owl, Undef, Undef, Undef) }

NextConfig ==
  \/ \E c \in PipelineContexts, bag \in ConfigBags : WillAppear(c, bag)
  \/ \E c \in PipelineContexts : WillDisappear(c)
  \/ \E c \in PipelineContexts, bag \in ConfigBags : DidReceiveSettings(c, bag)
  \/ \E bag \in ConfigBags : DidReceiveGlobalSettings(bag)
  \/ \E c \in PipelineContexts, bag \in ConfigBags : SendToPlugin(c, bag)
  \/ MqttConnect
  \/ MqttSubscribed(FALSE)
  \/ \E b \in ConfigBodies : MqttMessage(b, FALSE)
  \/ \E c \in PipelineContexts : RotationTimerFires(c)

SpecConfig == InitNoCache /\ [][NextConfig]_vars

\* A rotation timeout of context c fires and finds the context's state.
Tick(c) == RotationTimerFires(c) /\ c \in DOMAIN rotationState

\* C16: a tick that finds no species of today shows the waiting placeholder, keeps the index
\* and arms a retry interval that is the same under every configuration, the one armed under
\* the default configuration.
C16_EmptyTick ==
  [][\A c \in PipelineContexts :
       (Tick(c) /\ getTodayBirds(dailyBirds, now) = <<>>) =>
         /\ tiles'[c].title = Waiting
         /\ rotationState'[c].index = rotationState[c].index
         /\ rotationState'[c].timer = Timer(delayMs(FALSE, DEFAULTS))]_vars

----------------------------------------------------------------------------
(* Rotation over a list that gets shorter: three species before midnight, fewer after *)

WrapFile ==
  CacheFile(Day1, <<CacheBird(Jay, Num(20), StartNow - HourMs), CacheBird(Owl, Num(50), StartNow - HourMs),
                    CacheBird(Wren, Num(5), StartNow - HourMs)>>, Null, Null)

InitWrap ==
  /\ Boot(WrapFile, StartNow, DEFAULTS)
  /\ arg = Null
  /\ ret = Idle

NextWrap ==
  \/ \E c \in PipelineContexts : WillAppear(c, EmptyMap)
  \/ MqttConnect
  \/ MqttSubscribed(FALSE)
  \/ \E b \in PipelineBodies, r \in BOOLEAN : MqttMessage(b, r)
  \/ \E c \in PipelineContexts : RotationTimerFires(c)
  \/ Advance(StartNow + HourMs)

SpecWrap == InitWrap /\ [][NextWrap]_vars

\* A live message makes the rotation context c tick inside startRotation.
LiveTick(c) ==
  /\ c \in contextsOf(contexts, ACTION_TODAY)
  /\ \E b \in PipelineBodies \cup ConfigBodies : MqttMessage(b, FALSE)

\* The index a tick of context c finds stored: that of its state, 0 when the state is new.
storedIndex(c) == IF c \in DOMAIN rotationState THEN rotationState[c].index ELSE 0

\* C17 as amended: on every tick over a non-empty list of length N the species displayed is the
\* one at the stored index when that index is below N and the first of the list otherwise, and
\* the stored index afterwards is that position plus one.
C17_IndexRestarts ==
  [][\A c \in PipelineContexts :
       LET birds == getTodayBirds(dailyBirds', now')
           at == IF storedIndex(c) >= Len(birds) THEN 0 ELSE storedIndex(c)
       IN ((Tick(c) \/ LiveTick(c)) /\ birds # <<>>) =>
            /\ tiles'[c].image.display.name = birds[at + 1].name
            /\ rotationState'[c].index = at + 1]_vars

\* C17's case: a tick found a stored index beyond the length of the list and not a multiple of
\* it, and restarted at the first species.
C17_Witness ==
  /\ "today1" \in DOMAIN tickLog
  /\ tickLog["today1"].list # <<>>
  /\ tickLog["today1"].found > Len(tickLog["today1"].list)
  /\ tickLog["today1"].found % Len(tickLog["today1"].list) # 0
  /\ rotationState["today1"].index = 1

\* C17 as stated: the species displayed is the one at (stored index mod N).
C17_IndexModulo ==
  [][\A c \in PipelineContexts :
       LET birds == getTodayBirds(dailyBirds', now')
       IN ((Tick(c) \/ LiveTick(c)) /\ birds # <<>>) =>
            /\ tiles'[c].image.display.name = birds[(storedIndex(c) % Len(birds)) + 1].name
            /\ rotationState'[c].index = (storedIndex(c) % Len(birds)) + 1]_vars

\* C18: after a tick that displays a species the timer is armed for the rotation interval times
\* the hold multiplier if and only if the occurrence of the displayed species is a number at or
\* below the rare cutoff of getCommonality, and for the rotation interval otherwise.
C18_RareDwell ==
  [][\A c \in PipelineContexts :
       LET birds == getTodayBirds(dailyBirds', now')
           bird == birds[wrapIndex(storedIndex(c), Len(birds)) + 1]
           rare == typeof(bird.occurrence) = "number" /\ bird.occurrence.v <= rareCutoff(settings)
       IN ((Tick(c) \/ LiveTick(c)) /\ birds # <<>>) =>
            rotationState'[c].timer = Timer(delayMs(rare, settings))]_vars

\* C19: didReceiveSettings, didReceiveGlobalSettings and sendToPlugin leave every rotation state
\* (its index and its timer) and every pending rotation timeout as they were; a tick arms its
\* timer with the delay computed from the settings in force at the tick.
C19_NotRetroactive ==
  [][\A c \in PipelineContexts :
       /\ (\E bag \in ConfigBags :
             DidReceiveSettings(c, bag) \/ DidReceiveGlobalSettings(bag) \/ SendToPlugin(c, bag)) =>
            (rotationState' = rotationState /\ timeouts' = timeouts)
       /\ (Tick(c) \/ LiveTick(c)) =>
            rotationState'[c].timer =
              Timer(delayMs(rotationState'[c].lastRareHold = Bool(TRUE), settings))]_vars

\* C19's case: the longer interval is in force while the timer a tick armed under the default
\* interval is still pending.
C19_Witness ==
  /\ settings.rotationSeconds = SlowBag.rotationSeconds
  /\ "today1" \in DOMAIN rotationState
  /\ rotationState["today1"].timer = Timer(delayMs(FALSE, DEFAULTS))
  /\ rotationState["today1"].timer \in DOMAIN timeouts["today1"]
  /\ rotationState["today1"].lastRareHold = Bool(FALSE)

\* C20: startRotation(context, true), run by a live message, performs one tick (the species at
\* the stored index, or the first when the index is past the end, is displayed and the index
\* becomes that position plus one) and leaves the timer of that tick armed; startRotation(context)
\* without immediate, run by willAppear, leaves the tile and the stored index as they were and
\* arms the initial timer; either way the timeout the state holds afterwards is the only pending
\* rotation timeout of the context.
C20_Start ==
  [][\A c \in PipelineContexts :
       LET birds == getTodayBirds(dailyBirds', now')
           at == wrapIndex(storedIndex(c), Len(birds))
       IN /\ (LiveTick(c) /\ birds # <<>>) =>
               /\ tiles'[c].image.display.name = birds[at + 1].name
               /\ rotationState'[c].index = at + 1
               /\ rotationState'[c].timer # Null
               /\ timeouts'[c] = (rotationState'[c].timer :> 1)
          /\ (\E bag \in ConfigBags : WillAppear(c, bag)) =>
               /\ tiles'[c] = tiles[c]
               /\ rotationState'[c].index = storedIndex(c)
               /\ rotationState'[c].timer = Timer(InitialDelayMs)
               /\ timeouts'[c] = (Timer(InitialDelayMs) :> 1)]_vars

\* C20's case: the context was started again without immediate after ticks had advanced its
\* index; the index is kept and the initial timeout alone is pending.
C20_Witness ==
  /\ "today1" \in DOMAIN rotationState
  /\ rotationState["today1"].index = 2
  /\ rotationState["today1"].lastRareHold # Undef
  /\ timeouts["today1"] = (Timer(InitialDelayMs) :> 1)

----------------------------------------------------------------------------
(* Two rotation contexts over the same list of three species *)

PairContexts == {"today1", "today2"}

NextPair ==
  \/ \E c \in PairContexts : WillAppear(c, EmptyMap)
  \/ \E c \in PairContexts : WillDisappear(c)
  \/ \E c \in PairContexts : RotationTimerFires(c)
  \/ MqttConnect
  \/ MqttSubscribed(FALSE)
  \/ \E b \in RetainedBodies : MqttMessage(b, FALSE)

SpecPair == InitWrap /\ [][NextPair]_vars

\* C21: a timeout of context c firing, willAppear (start) of c and willDisappear (stop) of c leave
\* the rotation state of every other context (whether it has one, its index and its timer), its
\* pending timeouts and its tile as they were.
C21_Independence ==
  [][\A c \in PairContexts :
       (RotationTimerFires(c) \/ WillAppear(c, EmptyMap) \/ WillDisappear(c)) =>
         \A d \in PairContexts \ {c} :
           /\ timerOf(rotationState', d) = timerOf(rotationState, d)
           /\ (d \in DOMAIN rotationState') = (d \in DOMAIN rotationState)
           /\ d \in DOMAIN rotationState => rotationState'[d] = rotationState[d]
           /\ timeouts'[d] = timeouts[d]
           /\ tiles'[d] = tiles[d]]_vars

\* C21's case: two contexts rotate with different indexes and show different species.
C21_Witness ==
  /\ PairContexts \subseteq DOMAIN rotationState
  /\ rotationState["today1"].index = 3
  /\ rotationState["today2"].index = 1
  /\ tiles["today1"].image # Null /\ tiles["today2"].image # Null
  /\ tiles["today1"].image.display.name # tiles["today2"].image.display.name

\* The number of rotation timeouts pending for context c.
pendingCount(c) ==
  LET Sum[S \in SUBSET DOMAIN timeouts[c]] ==
        IF S = {} THEN 0 ELSE LET t == CHOOSE x \in S : TRUE IN timeouts[c][t] + Sum[S \ {t}]
  IN Sum[DOMAIN timeouts[c]]

\* C30: under every interleaving of willAppear, live messages, timer fires and willDisappear a
\* context has at most one rotation timeout pending, the one its state holds, and none when it
\* has no state.
C30_SingleChain ==
  \A c \in PairContexts :
    /\ pendingCount(c) <= 1
    /\ pendingCount(c) = 1 => (c \in DOMAIN rotationState /\ rotationState[c].timer \in DOMAIN timeouts[c])
    /\ c \notin DOMAIN rotationState => pendingCount(c) = 0

\* C30's case: a live message restarted a rotating context, which has one timeout pending, while
\* the other context, which had been rotating, is stopped.
C30_Witness ==
  /\ recorded # <<>>
  /\ "today1" \in DOMAIN rotationState
  /\ rotationState["today1"].index = 2
  /\ pendingCount("today1") = 1
  /\ "today2" \notin DOMAIN rotationState
  /\ tiles["today2"].image # Null

----------------------------------------------------------------------------
(* Upserts of detections with and without a confidence *)

ConfidenceMessage(name, confidence) ==
  JsonBody(Obj(Field("CommonName", Str(name)) @@ Field("Confidence", confidence)))

NewestBodies ==
  { ConfidenceMessage(name, confidence) : name \in {Jay, Owl}, confidence \in {Undef, Num(90)} }
  \cup { ConfidenceMessage(Jay, Num(50)) }

NextNewest ==
  \/ WillAppear("text1", EmptyMap)
  \/ MqttConnect
  \/ MqttSubscribed(FALSE)
  \/ \E b \in NewestBodies, r \in BOOLEAN : MqttMessage(b, r)
  \/ \E t \in DailyTimes : Advance(t)

SpecNewest == InitNoCache /\ [][NextNewest]_vars

\* The record of the species under a date key of the aggregate, Null when there is none.
recordOf(db, dateKey, name) ==
  IF dateKey \in DOMAIN db /\ indexOfName(db[dateKey], name) # 0
  THEN db[dateKey][indexOfName(db[dateKey], name)]
  ELSE Null

\* C22 as amended: after the upsert of a detection the stored confidence of its species is the
\* confidence of the detection when it carries one, and otherwise the confidence the record of
\* that species held before under the same date key (none when there was no such record); and
\* lastSeen is the time of the upsert.
C22_NewestFields ==
  [][\A b \in NewestBodies, r \in BOOLEAN :
       MqttMessage(b, r) =>
         LET detection == parsePayload(b, settings.payloadKey)
             before == recordOf(dailyBirds, dateKeyOf(detection, now), detection.name)
             after == recordOf(dailyBirds', dateKeyOf(detection, now), detection.name)
         IN /\ after # Null
            /\ after.lastSeen = now
            /\ IF IsNumber(detection.confidence) THEN after.confidence = detection.confidence
               ELSE IF before # Null THEN after.confidence = before.confidence
               ELSE ~IsNumber(after.confidence)]_vars

\* C22's case: the latest detection of a species carried no confidence and the record of the
\* species, last seen after the clock moved on, holds the confidence of an earlier detection.
C22_Witness ==
  /\ latestDetection # Null
  /\ ~IsNumber(latestDetection.confidence)
  /\ recordOf(dailyBirds, IsoDate(now), latestDetection.name) # Null
  /\ recordOf(dailyBirds, IsoDate(now), latestDetection.name).lastSeen = now
  /\ now > StartNow
  /\ IsNumber(recordOf(dailyBirds, IsoDate(now), latestDetection.name).confidence)

\* C22 as stated: the stored confidence is that of the detection just upserted, absent when the
\* detection carries none.
C22_ConfidenceOfLatest ==
  [][\A b \in NewestBodies, r \in BOOLEAN :
       MqttMessage(b, r) =>
         LET detection == parsePayload(b, settings.payloadKey)
             after == recordOf(dailyBirds', dateKeyOf(detection, now), detection.name)
         IN /\ after # Null
            /\ after.lastSeen = now
            /\ IF IsNumber(detection.confidence) THEN after.confidence = detection.confidence
               ELSE ~IsNumber(after.confidence)]_vars

----------------------------------------------------------------------------
(* getTodayBirds() over the day maps a cache file can hold *)

TodayOccurrences == {Undef, Num(5), Num(50), Num(One)}

\* Cache files of day 1 holding up to three species, each with or without an occurrence.
TodayFiles ==
  { CacheFile(Day1, <<>>, Null, Null) }
  \cup { CacheFile(Day1, <<CacheBird(Jay, a, StartNow - HourMs)>>, Null, Null) :
           a \in TodayOccurrences }
  \cup { CacheFile(Day1, <<CacheBird(Jay, a, StartNow - HourMs), CacheBird(Owl, b, StartNow - HourMs)>>,
                   Null, Null) : a \in TodayOccurrences, b \in TodayOccurrences }
  \cup { CacheFile(Day1, <<CacheBird(Jay, a, StartNow - HourMs), CacheBird(Owl, b, StartNow - HourMs),
                           CacheBird(Wren, c, StartNow - HourMs)>>, Null, Null) :
           a \in TodayOccurrences, b \in TodayOccurrences, c \in TodayOccurrences }

InitToday ==
  /\ \E file \in TodayFiles : Boot(file, StartNow, DEFAULTS)
  /\ arg = Null
  /\ ret = Idle

\* A call of getTodayBirds().
ListToday ==
  /\ ret' = Returned(getTodayBirds(dailyBirds, now))
  /\ UNCHANGED <<now, contexts, settings, globalSettings, mqtt, detectionTimestamps, imageCache,
                 imageInFlight, fetches, waiters, dailyBirds, rotationState, timeouts,
                 latestDetection, latestImageUrl, cacheSaveTimer, cacheFile, tiles, recorded,
                 seenOcc, tickLog, delivered, arg>>

NextToday == ListToday \/ Advance(StartNow + HourMs)

SpecToday == InitToday /\ [][NextToday]_vars

\* The occurrence a record is ordered by: its own, or 1 when it has none.
orderedAs(record) == IF IsNumber(record.occurrence) THEN record.occurrence.v ELSE One

\* C23: getTodayBirds() returns the records stored under today's key, each exactly once, in
\* ascending order of occurrence with a record without occurrence ordered as 1; it returns the
\* empty list when nothing is stored under today's key.
C23_TodaySpecies ==
  [][ListToday =>
       LET out == ret'.v
       IN IF IsoDate(now) \in DOMAIN dailyBirds
          THEN LET dayMap == dailyBirds[IsoDate(now)]
               IN /\ Len(out) = Len(dayMap)
                  /\ \A i \in 1..Len(dayMap) :
                       Cardinality({j \in 1..Len(out) : out[j] = dayMap[i]}) = 1
                  /\ \A i, j \in 1..Len(out) : i < j => orderedAs(out[i]) <= orderedAs(out[j])
          ELSE out = <<>>]_vars

\* C23's case: of three species the first stored has no occurrence and is returned last, after
\* a species whose occurrence is below 1.
C23_Witness ==
  /\ ret # Idle
  /\ Len(ret.v) = 3
  /\ now = StartNow
  /\ ~IsNumber(dailyBirds[IsoDate(now)][1].occurrence)
  /\ ret.v[3] = dailyBirds[IsoDate(now)][1]
  /\ IsNumber(ret.v[1].occurrence) /\ ret.v[1].occurrence.v < One

----------------------------------------------------------------------------
(* Messages reaching the text and meter keys *)

FanoutContexts == {"text1", "meter1"}

\* Two detections, and a body whose value at the payload key is an empty array.
FanoutBodies ==
  { BirdMessage(Jay, Num(20), Undef, Undef), ConfidenceMessage(Owl, Num(90)),
    JsonBody(Obj([CommonName |-> Arr(<<>>)])) }

NextFanout ==
  \/ \E c \in FanoutContexts : WillAppear(c, EmptyMap)
  \/ \E c \in FanoutContexts : WillDisappear(c)
  \/ MqttConnect
  \/ MqttSubscribed(FALSE)
  \/ \E b \in FanoutBodies, r \in BOOLEAN : MqttMessage(b, r)

SpecFanout == InitNoCache /\ [][NextFanout]_vars

\* What the handler of a message leaves when it has fanned the detection out: the aggregate
\* holds the species, the snapshot is the detection, and the key of every registered text and
\* meter context shows the display model built from the detection.
fannedOut(detection) ==
  LET display == formatTitle(detection.name, detection.confidence,
                             getDetectionsLastHour(detectionTimestamps', now), detection.occurrence,
                             settings)
  IN /\ latestDetection' = detection
     /\ recordOf(dailyBirds', dateKeyOf(detection, now), detection.name) # Null
     /\ \A c \in contextsOf(contexts, ACTION_TEXT) : tiles'[c] = setImageTitle(tiles[c], display, "text")
     /\ \A c \in contextsOf(contexts, ACTION_BORDER) : tiles'[c] = setImageTitle(tiles[c], display, "border")

\* C24: for every message, retained or live, from which parsePayload returns a Detection, the
\* handler updates the aggregate and the latest-detection snapshot and gives every registered
\* text and meter context the display model built from that detection: whenever the client is
\* subscribed, the handler's step on such a message is one that fans the detection out.
C24_FanOut ==
  mqtt = "subscribed" =>
    \A b \in FanoutBodies :
      parsePayload(b, settings.payloadKey) # Null =>
        ENABLED (MqttMessage(b, TRUE) /\ fannedOut(parsePayload(b, settings.payloadKey)))

----------------------------------------------------------------------------
(* The display model of one occurrence under every threshold triple *)

\* A call of formatTitle on a detection with the occurrence.
Format ==
  /\ ret' = Returned(formatTitle(Jay, Null, 0, arg, settings))
  /\ UNCHANGED <<now, contexts, settings, globalSettings, mqtt, detectionTimestamps, imageCache,
                 imageInFlight, fetches, waiters, dailyBirds, rotationState, timeouts,
                 latestDetection, latestImageUrl, cacheSaveTimer, cacheFile, tiles, recorded,
                 seenOcc, tickLog, delivered, arg>>

SpecDisplay == InitRarity /\ [][Format]_vars

\* C26: the rare flag of the display model is true exactly when the occurrence is a number at
\* or below the rare cutoff of getCommonality, that is exactly when the tier getCommonality
\* gives the occurrence is Epic or Rare.
C26_RareFlag ==
  ret # Idle =>
    /\ ret.v.rare = (IsNumber(arg) /\ arg.v <= rareCutoff(settings))
    /\ ret.v.rare = (getCommonality(arg, settings) \in {"Epic", "Rare"})

----------------------------------------------------------------------------
(* Name wrapping: splitName on names spelt character by character *)

\* const nameMaxLen = 12 and the 3 of splitName(trimmed, nameMaxLen, 3) in formatTitle
nameMaxLen == 12
nameMaxLines == 3

\* truncateToFit(text, maxLen)
truncateToFit(text, maxLen) ==
  IF Len(text) <= maxLen THEN text
  ELSE IF maxLen <= 3 THEN SubSeq(text, 1, maxLen)
  ELSE SubSeq(text, 1, maxLen - 3) \o <<".", ".", ".">>

RECURSIVE splitWords(_, _)
\* text.split(/\s+/) on a trimmed text: cur is the word being read.
splitWords(text, cur) ==
  IF text = <<>> THEN (IF cur = <<>> THEN <<>> ELSE <<cur>>)
  ELSE IF Head(text) = " "
    THEN (IF cur = <<>> THEN <<>> ELSE <<cur>>) \o splitWords(Tail(text), <<>>)
  ELSE splitWords(Tail(text), Append(cur, Head(text)))

RECURSIVE joinLines(_)
\* lines.join(" ")
joinLines(lines) ==
  IF lines = <<>> THEN <<>>
  ELSE IF Len(lines) = 1 THEN lines[1]
  ELSE lines[1] \o <<" ">> \o joinLines(Tail(lines))

RECURSIVE fillLines(_, _, _, _, _)
\* The for loop of splitName: the lines pushed and the line being filled when it ends.
fillLines(words, lines, current, maxLen, maxLines) ==
  IF words = <<>> THEN [lines |-> lines, current |-> current]
  ELSE LET word == Head(words)
           next == IF current = <<>> THEN word ELSE current \o <<" ">> \o word
           pushed == IF Len(next) <= maxLen THEN lines
                     ELSE IF current # <<>> THEN Append(lines, current)
                     ELSE Append(lines, truncateToFit(word, maxLen))
           filling == IF Len(next) <= maxLen THEN next
                      ELSE IF current # <<>> THEN truncateToFit(word, maxLen)
                      ELSE <<>>
       IN IF Len(pushed) = maxLines THEN [lines |-> pushed, current |-> filling]
          ELSE fillLines(Tail(words), pushed, filling, maxLen, maxLines)

\* splitName(text, maxLen, maxLines)
splitName(text, maxLen, maxLines) ==
  LET words == splitWords(text, <<>>)
      filled == fillLines(words, <<>>, <<>>, maxLen, maxLines)
      lines == IF Len(filled.lines) < maxLines /\ filled.current # <<>>
               THEN Append(filled.lines, filled.current) ELSE filled.lines
  IN IF text = <<>> THEN <<>>
     ELSE IF Len(lines) > maxLines THEN SubSeq(lines, 1, maxLines)
     ELSE IF Len(lines) = maxLines /\ Len(words) > 0 /\ Len(joinLines(lines)) < Len(text)
       THEN [lines EXCEPT ![maxLines] = truncateToFit(lines[maxLines], maxLen)]
     ELSE lines

\* A word of n letters.
Word(letter, n) == [i \in 1..n |-> letter]

WordLengths == {1, 5, 10, 13}

\* Names of one to four words.
LineNames ==
  { Word("a", i) : i \in WordLengths }
  \cup { joinLines(<<Word("a", i), Word("b", j)>>) : i \in WordLengths, j \in WordLengths }
  \cup { joinLines(<<Word("a", i), Word("b", j), Word("c", k)>>) :
           i \in WordLengths, j \in WordLengths, k \in WordLengths }
  \cup { joinLines(<<Word("a", i), Word("b", j), Word("c", k), Word("d", l)>>) :
           i \in WordLengths, j \in WordLengths, k \in WordLengths, l \in WordLengths }

InitLines ==
  /\ Boot(Null, StartNow, DEFAULTS)
  /\ arg \in LineNames
  /\ ret = Idle

\* The call of splitName in formatTitle.
Split ==
  /\ ret' = Returned(splitName(arg, nameMaxLen, nameMaxLines))
  /\ UNCHANGED <<now, contexts, settings, globalSettings, mqtt, detectionTimestamps, imageCache,
                 imageInFlight, fetches, waiters, dailyBirds, rotationState, timeouts,
                 latestDetection, latestImageUrl, cacheSaveTimer, cacheFile, tiles, recorded,
                 seenOcc, tickLog, delivered, arg>>

SpecLines == InitLines /\ [][Split]_vars

\* The lines the greedy fill of the name needs when their number is not limited.
unlimitedLines(text) == splitName(text, nameMaxLen, Len(text) + 1)

endsWithEllipsis(line) == Len(line) >= 3 /\ SubSeq(line, Len(line) - 2, Len(line)) = <<".", ".", ".">>

\* C27: the name is wrapped into at most 3 lines of at most 12 characters each, and when the
\* fill of the name needs more than 3 lines the third line returned is shortened and ends with
\* the ellipsis marker, so that it differs from the third line of a name that fits.
C27_Overflow ==
  ret # Idle =>
    /\ Len(ret.v) <= nameMaxLines
    /\ \A i \in 1..Len(ret.v) : Len(ret.v[i]) <= nameMaxLen
    /\ Len(unlimitedLines(arg)) > nameMaxLines =>
         /\ Len(ret.v) = nameMaxLines
         /\ endsWithEllipsis(ret.v[nameMaxLines])
         /\ ret.v[nameMaxLines] # unlimitedLines(arg)[nameMaxLines]

\* The first two conjuncts of C27 alone: at most 3 lines, each within the budget.
LinesWithinBudget ==
  ret # Idle =>
    /\ Len(ret.v) <= nameMaxLines
    /\ \A i \in 1..Len(ret.v) : Len(ret.v[i]) <= nameMaxLen

----------------------------------------------------------------------------
(* The configured path of the normaliser *)

\* C28: when a path is configured and the body parses, the value the path resolves to is the
\* name exactly when it is a non-empty scalar (a non-empty string, a number or a boolean); when
\* it is missing, empty, an object or an array the result is that of the alias search, which is
\* the result of the normaliser with no path configured.
C28_PathExtraction ==
  (ret # Idle /\ Truthy(settings.payloadKey) /\ settings.payloadKey.t = "str"
     /\ JSONparse(arg) # SyntaxError /\ trim(arg.text) # <<>>) =>
    LET value == getJsonPath(JSONparse(arg), settings.payloadKey.v)
        scalar == value.t \in {"num", "bool"} \/ (value.t = "str" /\ value.v # <<>>)
    IN IF scalar THEN ret.v # Null /\ ret.v.name = String(value)
       ELSE ret.v = parsePayload(arg, Undef)

----------------------------------------------------------------------------
(* Broker failures *)

BrokerContexts == {"text1", "meter1", "today1", "image1"}
BrokerBodies == { BirdMessage(Jay, Num(20), Str(Url1), Undef) }

NextBroker ==
  \/ \E c \in BrokerContexts : WillAppear(c, EmptyMap)
  \/ MqttConnect
  \/ \E err \in BOOLEAN : MqttSubscribed(err)
  \/ MqttError
  \/ \E b \in BrokerBodies : MqttMessage(b, FALSE)
  \/ \E id \in 1..MaxFetches : FetchSettles(id, TRUE)
  \/ RotationTimerFires("today1")

SpecBroker == InitNoCache /\ [][NextBroker]_vars

\* C29: a broker error event, and a subscribe error, leave every registered context that is
\* not an image key titled "MQTT ERR" over the image it already showed, leave every image
\* key exactly as it was, and leave the client as it was: no new connection is started, no
\* request is issued, and no aggregate, rotation state or pending timeout changes.
C29_BrokerFailure ==
  [][(MqttError \/ MqttSubscribed(TRUE)) =>
       /\ \A c \in DOMAIN contexts :
            IF contexts[c] = ACTION_IMAGE THEN tiles'[c] = tiles[c]
            ELSE tiles'[c] = [image |-> tiles[c].image, title |-> MqttErr]
       /\ \A c \in DOMAIN tiles \ DOMAIN contexts : tiles'[c] = tiles[c]
       /\ mqtt' = mqtt
       /\ UNCHANGED <<contexts, fetches, imageInFlight, dailyBirds, latestDetection,
                      rotationState, timeouts>>]_vars

\* All four kinds of key are registered, the image key shows a photo, and the three others
\* carry the error title after the broker failed on a subscribed client.
C29_Witness ==
  /\ DOMAIN contexts = BrokerContexts
  /\ mqtt = "subscribed"
  /\ tiles["image1"].image # Null
  /\ tiles["image1"].image.kind = "photo"
  /\ tiles["image1"].title # MqttErr
  /\ \A c \in {"text1", "meter1", "today1"} : tiles[c].title = MqttErr

----------------------------------------------------------------------------
(* A rotation key and a name that cannot be encoded *)

\* The name JSON.parse returns for the body {"CommonName":"\ud800"}.
Unpaired == <<LoneSurrogate>>

ProgressBodies ==
  { BirdMessage(Jay, Num(20), Undef, Undef), BirdMessage(Unpaired, Num(50), Undef, Undef) }

NextProgress ==
  \/ WillAppear("today1", EmptyMap)
  \/ WillDisappear("today1")
  \/ MqttConnect
  \/ MqttSubscribed(FALSE)
  \/ \E b \in ProgressBodies : MqttMessage(b, FALSE)
  \/ RotationTimerFires("today1")

SpecProgress == InitNoCache /\ [][NextProgress]_vars

\* C31: whenever a handler has finished, every context that has rotation state has a timeout
\* pending, the one its state holds, so that its next tick will come.
C31_Armed ==
  \A c \in DOMAIN rotationState :
    /\ pendingCount(c) >= 1
    /\ rotationState[c].timer \in DOMAIN timeouts[c]

----------------------------------------------------------------------------
(* Live detections, dated and undated, reaching a rotation key *)

\* One detection without a date, one dated the current UTC day, one dated the day after.
VisibleBodies ==
  { BirdMessage(Jay, Num(20), Undef, Undef),
    BirdMessage(Wren, Num(5), Undef, Str(Day1)),
    BirdMessage(Owl, Num(50), Undef, Str(Day2)) }

NextVisible ==
  \/ WillAppear("today1", EmptyMap)
  \/ MqttConnect
  \/ MqttSubscribed(FALSE)
  \/ \E b \in VisibleBodies : MqttMessage(b, FALSE)
  \/ RotationTimerFires("today1")

SpecVisible == InitNoCache /\ [][NextVisible]_vars

\* C32: when the handler of a live message has upserted a detection with a name, dated or not,
\* getTodayBirds() holds a record of that name, and no rotation key shows the waiting title.
C32_UpsertVisible ==
  [][\A b \in VisibleBodies :
       LET detection == parsePayload(b, settings.payloadKey)
       IN (MqttMessage(b, FALSE) /\ accepted(detection)) =>
            /\ \E i \in 1..Len(getTodayBirds(dailyBirds', now')) :
                 getTodayBirds(dailyBirds', now')[i].name = detection.name
            /\ \A c \in contextsOf(contexts, ACTION_TODAY) : tiles'[c].title # Waiting]_vars

----------------------------------------------------------------------------
(* The latest detection and the latest image *)

LatestContexts == {"text1", "image1"}

\* A detection with a picture and a detection without one.
LatestBodies ==
  { BirdMessage(Jay, Num(20), Str(Url1), Undef), BirdMessage(Owl, Num(50), Undef, Undef) }

NextLatest ==
  \/ \E c \in LatestContexts : WillAppear(c, EmptyMap)
  \/ MqttConnect
  \/ MqttSubscribed(FALSE)
  \/ \E b \in LatestBodies, r \in BOOLEAN : MqttMessage(b, r)
  \/ \E id \in 1..MaxFetches : FetchSettles(id, TRUE)

SpecLatest == InitNoCache /\ [][NextLatest]_vars

\* C33: whatever messages have arrived, latestImageUrl is the imageUrl of latestDetection (none
\* when that detection carries none), so willAppear hands an image key the picture of the
\* detection it hands a text key.
C33_Coherent ==
  latestDetection # Null =>
    IF Truthy(latestDetection.imageUrl) THEN latestImageUrl = latestDetection.imageUrl
    ELSE ~Truthy(latestImageUrl)

----------------------------------------------------------------------------
(* Images delivered after the key has gone *)

\* C34: when a fetch settles, the keys whose picture changes are registered at that moment,
\* also when the fetch was started by willAppear for one key that has disappeared since.
C34_RegisteredOnly ==
  [][\A id \in 1..MaxFetches, ok \in BOOLEAN :
       FetchSettles(id, ok) =>
         \A c \in DOMAIN tiles : tiles'[c] # tiles[c] => c \in DOMAIN contexts]_vars

----------------------------------------------------------------------------
(* The rare flag of the display and the hold of the timer *)

\* Settings bags the property inspector sends: nothing set, the rare threshold emptied, and the
\* rare threshold set to 0.
BlankBag == [rareOccurrenceThreshold |-> Str(<<>>)]
ZeroBag == [rareOccurrenceThreshold |-> Num(0)]
EmphasisBags == {EmptyMap, BlankBag, ZeroBag}

NextEmphasis ==
  \/ \E c \in PipelineContexts, bag \in EmphasisBags : WillAppear(c, bag)
  \/ \E c \in PipelineContexts, bag \in EmphasisBags : DidReceiveSettings(c, bag)
  \/ MqttConnect
  \/ MqttSubscribed(FALSE)
  \/ \E b \in PipelineBodies : MqttMessage(b, FALSE)
  \/ \E c \in PipelineContexts : RotationTimerFires(c)

SpecEmphasis == InitWrap /\ [][NextEmphasis]_vars

====
